---- MODULE Spec2Model ----
(***************************************************************************)
(* Universal Battery Card (v2.0.1): the battery-state derivation engine.   *)
(* The card reads entity states from hass.states, resolves them against    *)
(* the card configuration and derives one statistics snapshot per update.  *)
(*                                                                         *)
(* JavaScript numbers are modelled as exact rationals n/d extended with    *)
(* NaN, +Infinity and -Infinity (k = "nan" / "inf"); null is k = "null".   *)
(* Negative zero is identified with zero (the code never observes the      *)
(* difference: it compares with ===, <, > only).  Strings are sequences    *)
(* of one-character strings, so that parseFloat and toLowerCase are        *)
(* computed character by character.                                        *)
(***************************************************************************)
EXTENDS Integers, Sequences, FiniteSets, TLC

(***************************************************************************)
(* JavaScript numbers                                                      *)
(***************************************************************************)
RECURSIVE GCD(_, _)
GCD(a, b) == IF b = 0 THEN a ELSE GCD(b, a % b)

AbsInt(x) == IF x < 0 THEN -x ELSE x

\* the rational n/d in lowest terms, d > 0
Fin(n, d) ==
  LET s == IF d < 0 THEN -1 ELSE 1
      g == GCD(AbsInt(n), AbsInt(d))
  IN [k |-> "fin", n |-> (s * n) \div g, d |-> (s * d) \div g]

Num(i) == [k |-> "fin", n |-> i, d |-> 1]
NaN == [k |-> "nan", n |-> 0, d |-> 1]
PosInf == [k |-> "inf", n |-> 1, d |-> 1]
NegInf == [k |-> "inf", n |-> -1, d |-> 1]
Null == [k |-> "null", n |-> 0, d |-> 1]

IsNaN(x) == x.k = "nan"
IsFinite(x) == x.k = "fin"
\* sign of a non-NaN number: -1, 0 or 1
Sign(x) == IF x.n < 0 THEN -1 ELSE IF x.n > 0 THEN 1 ELSE 0
InfOf(s) == IF s < 0 THEN NegInf ELSE PosInf

\* a * b
Mul(a, b) ==
  IF IsNaN(a) \/ IsNaN(b) THEN NaN
  ELSE IF a.k = "inf" \/ b.k = "inf"
       THEN (IF Sign(a) * Sign(b) = 0 THEN NaN ELSE InfOf(Sign(a) * Sign(b)))
       ELSE Fin(a.n * b.n, a.d * b.d)

\* a / b
Div(a, b) ==
  IF IsNaN(a) \/ IsNaN(b) THEN NaN
  ELSE IF a.k = "inf"
       THEN (IF b.k = "inf" THEN NaN
             ELSE InfOf(Sign(a) * (IF Sign(b) < 0 THEN -1 ELSE 1)))
       ELSE IF b.k = "inf" THEN Num(0)
       ELSE IF b.n = 0
            THEN (IF a.n = 0 THEN NaN ELSE InfOf(Sign(a)))
            ELSE Fin(a.n * b.d, a.d * b.n)

\* a - b
Sub(a, b) ==
  IF IsNaN(a) \/ IsNaN(b) THEN NaN
  ELSE IF a.k = "inf"
       THEN (IF b.k = "inf" /\ Sign(a) = Sign(b) THEN NaN ELSE a)
       ELSE IF b.k = "inf" THEN InfOf(-Sign(b))
       ELSE Fin(a.n * b.d - b.n * a.d, a.d * b.d)

\* a < b (false when either is NaN)
Lt(a, b) ==
  IF IsNaN(a) \/ IsNaN(b) THEN FALSE
  ELSE IF a.k = "inf" THEN Sign(a) < 0 /\ ~(b.k = "inf" /\ Sign(b) < 0)
  ELSE IF b.k = "inf" THEN Sign(b) > 0
  ELSE a.n * b.d < b.n * a.d

Gt(a, b) == Lt(b, a)
\* a >= b (false when either is NaN)
Ge(a, b) == ~IsNaN(a) /\ ~IsNaN(b) /\ ~Lt(a, b)

\* Math.abs
MathAbs(x) ==
  IF IsNaN(x) THEN NaN
  ELSE IF x.k = "inf" THEN PosInf
  ELSE [k |-> "fin", n |-> AbsInt(x.n), d |-> x.d]

\* Math.min
MathMin(a, b) ==
  IF IsNaN(a) \/ IsNaN(b) THEN NaN
  ELSE IF Lt(b, a) THEN b ELSE a

\* truthiness of a number or null: 0, NaN and null are falsy
Truthy(x) == x.k = "inf" \/ (x.k = "fin" /\ x.n # 0)

(***************************************************************************)
(* JavaScript strings                                                      *)
(***************************************************************************)
UpperCase == <<"A","B","C","D","E","F","G","H","I","J","K","L","M",
               "N","O","P","Q","R","S","T","U","V","W","X","Y","Z">>
LowerCase == <<"a","b","c","d","e","f","g","h","i","j","k","l","m",
               "n","o","p","q","r","s","t","u","v","w","x","y","z">>

LowerOf(c) ==
  IF \E i \in 1..Len(UpperCase) : UpperCase[i] = c
  THEN LowerCase[CHOOSE i \in 1..Len(UpperCase) : UpperCase[i] = c]
  ELSE c

\* String.prototype.toLowerCase
ToLowerCase(s) == [i \in 1..Len(s) |-> LowerOf(s[i])]

DigitChars == <<"0","1","2","3","4","5","6","7","8","9">>
IsDigit(c) == \E i \in 1..Len(DigitChars) : DigitChars[i] = c
DigitVal(c) == (CHOOSE i \in 1..Len(DigitChars) : DigitChars[i] = c) - 1

RECURSIVE Pow10(_)
Pow10(e) == IF e = 0 THEN 1 ELSE 10 * Pow10(e - 1)

\* number of leading white-space characters of s from position i
RECURSIVE WsRun(_, _)
WsRun(s, i) == IF i <= Len(s) /\ s[i] = " " THEN 1 + WsRun(s, i + 1) ELSE 0

\* number of consecutive digits of s from position i
RECURSIVE DigitRun(_, _)
DigitRun(s, i) == IF i <= Len(s) /\ IsDigit(s[i]) THEN 1 + DigitRun(s, i + 1) ELSE 0

\* value of the m digits of s that start at position i
RECURSIVE DigitsValue(_, _, _)
DigitsValue(s, i, m) ==
  IF m = 0 THEN 0 ELSE DigitsValue(s, i, m - 1) * 10 + DigitVal(s[i + m - 1])

StartsWith(s, i, w) ==
  /\ i + Len(w) - 1 <= Len(s)
  /\ \A j \in 1..Len(w) : s[i + j - 1] = w[j]

InfinityWord == <<"I","n","f","i","n","i","t","y">>

\* parseFloat, the exponent: mant / 10^nf scaled by the ne exponent digits
\* of s at position i4 (no scaling when there are none)
ParseExponentDigits(s, mant, nf, eNeg, i4, ne) ==
  IF ne = 0 THEN Fin(mant, Pow10(nf))
  ELSE IF eNeg THEN Fin(mant, Pow10(nf) * Pow10(DigitsValue(s, i4, ne)))
  ELSE Fin(mant * Pow10(DigitsValue(s, i4, ne)), Pow10(nf))

\* parseFloat, after the mantissa: an optional e or E, sign and digits at i3
ParseExponent(s, mant, nf, i3) ==
  IF i3 <= Len(s) /\ s[i3] \in {"e", "E"}
  THEN IF i3 + 1 <= Len(s) /\ s[i3 + 1] \in {"+", "-"}
       THEN ParseExponentDigits(s, mant, nf, s[i3 + 1] = "-", i3 + 2, DigitRun(s, i3 + 2))
       ELSE ParseExponentDigits(s, mant, nf, FALSE, i3 + 1, DigitRun(s, i3 + 1))
  ELSE Fin(mant, Pow10(nf))

\* parseFloat, the mantissa: ni integer digits at i1, then (hasDot) a point
\* and nf fraction digits; NaN when there is no digit at all
ParseMantissa(s, sgn, i1, ni, hasDot, nf) ==
  IF ni + nf = 0 THEN NaN
  ELSE ParseExponent(s,
         sgn * (DigitsValue(s, i1, ni) * Pow10(nf) + DigitsValue(s, i1 + ni + 1, nf)),
         nf,
         IF hasDot THEN i1 + ni + 1 + nf ELSE i1 + ni)

\* parseFloat, after the sign: Infinity or a decimal literal at i1
ParseUnsigned(s, sgn, i1, ni) ==
  IF StartsWith(s, i1, InfinityWord) THEN InfOf(sgn)
  ELSE IF i1 + ni <= Len(s) /\ s[i1 + ni] = "."
  THEN ParseMantissa(s, sgn, i1, ni, TRUE, DigitRun(s, i1 + ni + 1))
  ELSE ParseMantissa(s, sgn, i1, ni, FALSE, 0)

\* parseFloat, after the leading white space: an optional sign at i0
ParseSigned(s, i0) ==
  IF i0 <= Len(s) /\ s[i0] = "-" THEN ParseUnsigned(s, -1, i0 + 1, DigitRun(s, i0 + 1))
  ELSE IF i0 <= Len(s) /\ s[i0] = "+" THEN ParseUnsigned(s, 1, i0 + 1, DigitRun(s, i0 + 1))
  ELSE ParseUnsigned(s, 1, i0, DigitRun(s, i0))

\* parseFloat of a string: the longest prefix (after leading white space)
\* that is a decimal literal, NaN when there is none
ParseFloatStr(s) == ParseSigned(s, 1 + WsRun(s, 1))

(***************************************************************************)
(* Entities and configuration values                                       *)
(***************************************************************************)
\* an entry of hass.states: the state string and attributes.unit_of_measurement
Entity(state, unit) == [present |-> TRUE, state |-> state, unit |-> unit]
\* hass.states[id] when id is no key of hass.states (undefined)
NoEntity == [present |-> FALSE, state |-> <<>>, unit |-> <<>>]

\* a configuration value: undefined, null, a string or a number
Undefined == [t |-> "undefined", s |-> <<>>, v |-> Null]
NullValue == [t |-> "null", s |-> <<>>, v |-> Null]
StringValue(s) == [t |-> "string", s |-> s, v |-> Null]
NumberValue(x) == [t |-> "number", s |-> <<>>, v |-> x]

\* parseFloat(x) of a configuration value: a number converts to its decimal
\* text and parses back to itself, a string is parsed, undefined and null
\* give NaN
ParseFloat(x) ==
  IF x.t = "number" THEN x.v
  ELSE IF x.t = "string" THEN ParseFloatStr(x.s)
  ELSE NaN

\* x ?? fallback for a configuration value that is a number, null or undefined
Coalesce(x, fallback) ==
  IF x.t \in {"undefined", "null"} THEN fallback ELSE x.v

\* hass.states[entityId]
StateOf(hass, entityId) ==
  IF entityId \in DOMAIN hass.states THEN hass.states[entityId] ELSE NoEntity

Unavailable == [value |-> Null, unit |-> <<>>, available |-> FALSE, isFixed |-> FALSE]

(***************************************************************************)
(* Utility functions                                                       *)
(***************************************************************************)
\* mutant: the entity is preferred over the fixed value when it can be read
getEntityOrFixedValue_EntityFirst(hass, config, entityKey, fixedKey, defaultUnit) ==
  LET fixedValue == config[fixedKey]
      entityId == config[entityKey]
      entity == StateOf(hass, entityId)
      state == ParseFloatStr(entity.state)
  IN IF entityId # "" /\ entity.present /\ ~IsNaN(state)
     THEN [value |-> state,
           unit |-> IF entity.unit # <<>> THEN entity.unit ELSE defaultUnit,
           available |-> TRUE, isFixed |-> FALSE]
     ELSE IF fixedValue.t # "undefined" /\ fixedValue.t # "null"
             /\ ~(fixedValue.t = "string" /\ fixedValue.s = <<>>)
     THEN [value |-> ParseFloat(fixedValue), unit |-> defaultUnit,
           available |-> TRUE, isFixed |-> TRUE]
     ELSE Unavailable

getEntityOrFixedValue(hass, config, entityKey, fixedKey, defaultUnit) ==
  LET fixedValue == config[fixedKey]
      entityId == config[entityKey]
      entity == StateOf(hass, entityId)
      state == ParseFloatStr(entity.state)
  IN IF fixedValue.t # "undefined" /\ fixedValue.t # "null"
        /\ ~(fixedValue.t = "string" /\ fixedValue.s = <<>>)
     THEN [value |-> ParseFloat(fixedValue), unit |-> defaultUnit,
           available |-> TRUE, isFixed |-> TRUE]
     ELSE IF entityId = "" THEN Unavailable
     ELSE IF ~entity.present THEN Unavailable
     ELSE IF IsNaN(state) THEN Unavailable
     ELSE [value |-> state,
           unit |-> IF entity.unit # <<>> THEN entity.unit ELSE defaultUnit,
           available |-> TRUE, isFixed |-> FALSE]

getEntityValue(hass, entityId) ==
  LET entity == StateOf(hass, entityId)
      state == ParseFloatStr(entity.state)
  IN IF entityId = "" THEN [value |-> Null, unit |-> <<>>, available |-> FALSE]
     ELSE IF ~entity.present THEN [value |-> Null, unit |-> <<>>, available |-> FALSE]
     ELSE IF IsNaN(state) THEN [value |-> Null, unit |-> <<>>, available |-> FALSE]
     ELSE [value |-> state, unit |-> entity.unit, available |-> TRUE]

entityExists(hass, entityId) == entityId # "" /\ entityId \in DOMAIN hass.states

\* mutant: the unit is compared without lower-casing it
normalizeUnit_CaseSensitive(value, unit) ==
  IF unit = <<"k","W","h">> \/ unit = <<"k","W">>
  THEN Mul(value, Num(1000))
  ELSE value

normalizeUnit(value, unit) ==
  LET lowerUnit == ToLowerCase(unit)
  IN IF lowerUnit = <<"k","w","h">> \/ lowerUnit = <<"k","w">>
     THEN Mul(value, Num(1000))
     ELSE value

\* mutant: the direction of the power is not compared with the target
calculateTimeToTarget_NoDirection(currentEnergy, targetEnergy, powerWatts) ==
  LET energyDiff == Sub(targetEnergy, currentEnergy)
      hours == Div(MathAbs(energyDiff), MathAbs(powerWatts))
  IN IF powerWatts = Num(0) THEN Null ELSE Mul(hours, Num(60))

\* mutant: the result is left in hours
calculateTimeToTarget_Hours(currentEnergy, targetEnergy, powerWatts) ==
  LET energyDiff == Sub(targetEnergy, currentEnergy)
      hours == Div(MathAbs(energyDiff), MathAbs(powerWatts))
  IN IF powerWatts = Num(0) THEN Null
     ELSE IF (Gt(energyDiff, Num(0)) /\ Lt(powerWatts, Num(0)))
             \/ (Lt(energyDiff, Num(0)) /\ Gt(powerWatts, Num(0)))
     THEN Null
     ELSE hours

calculateTimeToTarget(currentEnergy, targetEnergy, powerWatts) ==
  LET energyDiff == Sub(targetEnergy, currentEnergy)
      hours == Div(MathAbs(energyDiff), MathAbs(powerWatts))
  IN IF powerWatts = Num(0) THEN Null
     ELSE IF (Gt(energyDiff, Num(0)) /\ Lt(powerWatts, Num(0)))
             \/ (Lt(energyDiff, Num(0)) /\ Gt(powerWatts, Num(0)))
     THEN Null
     ELSE Mul(hours, Num(60))

\* mutant: the threshold itself counts as charging
getBatteryStatus_Inclusive(power, threshold) ==
  IF Ge(power, threshold) THEN "charging"
  ELSE IF Lt(power, Sub(Num(0), threshold)) THEN "discharging"
  ELSE "idle"

getBatteryStatus(power, threshold) ==
  IF Gt(power, threshold) THEN "charging"
  ELSE IF Lt(power, Sub(Num(0), threshold)) THEN "discharging"
  ELSE "idle"

(***************************************************************************)
(* Number to text, rounding and remainder as the formatters use them       *)
(***************************************************************************)
\* Math.floor
MathFloor(x) == IF IsFinite(x) THEN Num(x.n \div x.d) ELSE x

\* Math.round: the nearest integer, a half rounds toward +Infinity
MathRound(x) == IF IsFinite(x) THEN Num((2 * x.n + x.d) \div (2 * x.d)) ELSE x

\* a % b for a finite divisor b # 0: the remainder has the sign of a
Rem(a, b) ==
  IF ~IsFinite(a) \/ ~IsFinite(b) \/ b.n = 0 THEN NaN
  ELSE LET q == Div(a, b)
           t == IF q.n >= 0 THEN q.n \div q.d ELSE -((-q.n) \div q.d)
       IN Sub(a, Mul(b, Num(t)))

\* the decimal digits of a natural number
RECURSIVE NatToString(_)
NatToString(n) ==
  IF n < 10 THEN <<DigitChars[n + 1]>>
  ELSE NatToString(n \div 10) \o <<DigitChars[(n % 10) + 1]>>

\* String.prototype.padStart(len, c)
RECURSIVE PadStart(_, _, _)
PadStart(s, len, c) == IF Len(s) >= len THEN s ELSE PadStart(<<c>> \o s, len, c)

\* Number.prototype.toString() of an integer, NaN or an infinity
NumberToString(x) ==
  IF IsNaN(x) THEN <<"N","a","N">>
  ELSE IF x.k = "inf" THEN (IF x.n < 0 THEN <<"-">> ELSE <<>>) \o InfinityWord
  ELSE IF x.n < 0 THEN <<"-">> \o NatToString(-x.n)
  ELSE NatToString(x.n)

\* Number.prototype.toFixed(f) for 0 <= f <= 100: the magnitude is rounded to
\* f decimals, a half away from zero, and a negative number keeps its sign
ToFixed(x, f) ==
  IF ~IsFinite(x) THEN NumberToString(x)
  ELSE LET m == AbsInt(x.n)
           scaled == (2 * m * Pow10(f) + x.d) \div (2 * x.d)
           whole == NatToString(scaled \div Pow10(f))
           frac == PadStart(NatToString(scaled % Pow10(f)), f, "0")
       IN (IF x.n < 0 THEN <<"-">> ELSE <<>>)
          \o whole \o (IF f = 0 THEN <<>> ELSE <<".">> \o frac)

(***************************************************************************)
(* Presentation and formatting functions                                   *)
(***************************************************************************)
\* a colour option: an [r, g, b] array, a CSS variable name, or left out
Rgb(r, g, b) == [t |-> "array", s |-> <<>>, a |-> <<r, g, b>>]
CssVar(name) == [t |-> "string", s |-> name, a |-> <<>>]
NoColour == [t |-> "undefined", s |-> <<>>, a |-> <<>>]

\* c ?? fallback for a colour option
ColourOr(c, fallback) == IF c.t \in {"undefined", "null"} THEN fallback ELSE c

\* `var(${name})`
VarText(c) == <<"v","a","r","(">> \o c.s \o <<")">>

\* `rgb(${c[0]}, ${c[1]}, ${c[2]})`; indexing something that is no array
\* gives undefined
RgbText(c) ==
  LET part(i) == IF c.t = "array" THEN NumberToString(Num(c.a[i]))
                 ELSE <<"u","n","d","e","f","i","n","e","d">>
  IN <<"r","g","b","(">> \o part(1) \o <<",", " ">> \o part(2)
     \o <<",", " ">> \o part(3) \o <<")">>

\* the thresholds array of getSocColor
SocTiers(config) ==
  <<[threshold |-> Coalesce(config.soc_threshold_very_high, Num(80)),
     color |-> ColourOr(config.soc_colour_very_high, Rgb(0, 128, 0))],
    [threshold |-> Coalesce(config.soc_threshold_high, Num(60)),
     color |-> ColourOr(config.soc_colour_high, Rgb(0, 128, 0))],
    [threshold |-> Coalesce(config.soc_threshold_medium, Num(40)),
     color |-> ColourOr(config.soc_colour_medium, Rgb(255, 166, 0))],
    [threshold |-> Coalesce(config.soc_threshold_low, Num(20)),
     color |-> ColourOr(config.soc_colour_low, Rgb(219, 68, 55))]>>

\* the for loop of getSocColor from tier i on: the first tier that returns,
\* 0 when the loop ends without returning
RECURSIVE FirstTier(_, _, _)
FirstTier(socPercent, tiers, i) ==
  IF i > Len(tiers) THEN 0
  ELSE IF Ge(socPercent, tiers[i].threshold) /\ tiers[i].color.t \in {"string", "array"}
  THEN i
  ELSE FirstTier(socPercent, tiers, i + 1)

\* mutant: a tier matches only above its threshold
RECURSIVE FirstTier_Strict(_, _, _)
FirstTier_Strict(socPercent, tiers, i) ==
  IF i > Len(tiers) THEN 0
  ELSE IF Gt(socPercent, tiers[i].threshold) /\ tiers[i].color.t \in {"string", "array"}
  THEN i
  ELSE FirstTier_Strict(socPercent, tiers, i + 1)

\* getSocColor once the loop has chosen tier i (0: none)
SocColorOfTier(config, tiers, i) ==
  IF i > 0
  THEN IF tiers[i].color.t = "string" THEN VarText(tiers[i].color)
       ELSE RgbText(tiers[i].color)
  ELSE IF ColourOr(config.soc_colour_very_low, Rgb(139, 0, 0)).t = "string"
       THEN VarText(ColourOr(config.soc_colour_very_low, Rgb(139, 0, 0)))
       ELSE RgbText(ColourOr(config.soc_colour_very_low, Rgb(139, 0, 0)))

\* mutant of getSocColor
getSocColor_Strict(socPercent, config) ==
  SocColorOfTier(config, SocTiers(config), FirstTier_Strict(socPercent, SocTiers(config), 1))

getSocColor(socPercent, config) ==
  SocColorOfTier(config, SocTiers(config), FirstTier(socPercent, SocTiers(config), 1))

\* mutant: the breakpoints are exclusive
getBatteryIcon_Exclusive(socPercent) ==
  IF Gt(socPercent, Num(95)) THEN "mdi:battery"
  ELSE IF Gt(socPercent, Num(85)) THEN "mdi:battery-90"
  ELSE IF Gt(socPercent, Num(75)) THEN "mdi:battery-80"
  ELSE IF Gt(socPercent, Num(65)) THEN "mdi:battery-70"
  ELSE IF Gt(socPercent, Num(55)) THEN "mdi:battery-60"
  ELSE IF Gt(socPercent, Num(45)) THEN "mdi:battery-50"
  ELSE IF Gt(socPercent, Num(35)) THEN "mdi:battery-40"
  ELSE IF Gt(socPercent, Num(25)) THEN "mdi:battery-30"
  ELSE IF Gt(socPercent, Num(15)) THEN "mdi:battery-20"
  ELSE IF Gt(socPercent, Num(5)) THEN "mdi:battery-10"
  ELSE "mdi:battery-outline"

getBatteryIcon(socPercent) ==
  IF Ge(socPercent, Num(95)) THEN "mdi:battery"
  ELSE IF Ge(socPercent, Num(85)) THEN "mdi:battery-90"
  ELSE IF Ge(socPercent, Num(75)) THEN "mdi:battery-80"
  ELSE IF Ge(socPercent, Num(65)) THEN "mdi:battery-70"
  ELSE IF Ge(socPercent, Num(55)) THEN "mdi:battery-60"
  ELSE IF Ge(socPercent, Num(45)) THEN "mdi:battery-50"
  ELSE IF Ge(socPercent, Num(35)) THEN "mdi:battery-40"
  ELSE IF Ge(socPercent, Num(25)) THEN "mdi:battery-30"
  ELSE IF Ge(socPercent, Num(15)) THEN "mdi:battery-20"
  ELSE IF Ge(socPercent, Num(5)) THEN "mdi:battery-10"
  ELSE "mdi:battery-outline"

\* `${hours...padStart(2, '0')}:${mins...}:${secs...}`
ClockText(hours, mins, secs) ==
  PadStart(NumberToString(hours), 2, "0") \o <<":">>
  \o PadStart(NumberToString(mins), 2, "0") \o <<":">>
  \o PadStart(NumberToString(secs), 2, "0")

formatDuration(minutes) ==
  IF minutes = Null \/ Lt(minutes, Num(0))
  THEN <<"-","-",":","-","-",":","-","-">>
  ELSE IF Gt(MathFloor(Div(minutes, Num(60))), Num(99))
  THEN <<"9","9",":","5","9",":","5","9","+">>
  ELSE ClockText(MathFloor(Div(minutes, Num(60))),
                 MathFloor(Rem(minutes, Num(60))),
                 MathFloor(Rem(Mul(minutes, Num(60)), Num(60))))

\* the decimals argument of formatPower: undefined takes the default 0
DecimalsOr0(decimals) == IF decimals.t = "undefined" THEN Num(0) ELSE decimals.v

\* mutant: 0 decimals are kept in kW
formatPower_ZeroDecimals(watts, decimals) ==
  IF Ge(MathAbs(watts), Num(1000))
  THEN [value |-> ToFixed(Div(watts, Num(1000)), DecimalsOr0(decimals).n),
        unit |-> <<"k","W">>]
  ELSE [value |-> NumberToString(MathRound(watts)), unit |-> <<"W">>]

formatPower(watts, decimals) ==
  IF Ge(MathAbs(watts), Num(1000))
  THEN [value |-> ToFixed(Div(watts, Num(1000)),
                          IF Truthy(DecimalsOr0(decimals))
                          THEN DecimalsOr0(decimals).n ELSE 1),
        unit |-> <<"k","W">>]
  ELSE [value |-> NumberToString(MathRound(watts)), unit |-> <<"W">>]

(***************************************************************************)
(* UniversalBatteryCard._calculateStats                                    *)
(***************************************************************************)
\* trickle_charge_threshold of DEFAULT_CONFIG and of the ?? fallback, in W
DefaultTrickleThreshold == 25

\* the result of _calculateStats when it returns null
NullStats == [null |-> TRUE]

\* mutant: only the spelling kW is taken for kilowatts
PowerWatts_CaseSensitive(powerValue) ==
  IF powerValue.unit = <<"k","W">>
  THEN Mul(powerValue.value, Num(1000))
  ELSE powerValue.value

\* power in watts: a reading whose unit is kW (any case) is multiplied by 1000
PowerWatts(powerValue) ==
  IF ToLowerCase(powerValue.unit) = <<"k","w">>
  THEN Mul(powerValue.value, Num(1000))
  ELSE powerValue.value

\* mutant: a reading equal to the threshold is filtered too
TrickleFilter_Inclusive(config, power) ==
  IF config.enable_trickle_charge_filter
     /\ ~Gt(MathAbs(power),
            Coalesce(config.trickle_charge_threshold, Num(DefaultTrickleThreshold)))
  THEN Num(0)
  ELSE power

\* the trickle charge filter
TrickleFilter(config, power) ==
  IF config.enable_trickle_charge_filter
     /\ Lt(MathAbs(power),
           Coalesce(config.trickle_charge_threshold, Num(DefaultTrickleThreshold)))
  THEN Num(0)
  ELSE power

\* mutant: a fixed capacity is taken to be in Wh already
CapacityWh_FixedAsWh(capacityData) ==
  IF capacityData.available /\ capacityData.value # Null
  THEN (IF capacityData.isFixed THEN capacityData.value
        ELSE normalizeUnit(capacityData.value, capacityData.unit))
  ELSE Null

\* capacity in Wh: a fixed capacity is in kWh
CapacityWh(capacityData) ==
  IF capacityData.available /\ capacityData.value # Null
  THEN (IF capacityData.isFixed THEN Mul(capacityData.value, Num(1000))
        ELSE normalizeUnit(capacityData.value, capacityData.unit))
  ELSE Null

\* a percentage reading (reserve, cutoff)
PercentOf(data) == IF data.available /\ data.value # Null THEN data.value ELSE Null

\* a rate in W: a fixed rate is in W
RateW(rateData) ==
  IF rateData.available /\ rateData.value # Null
  THEN (IF rateData.isFixed THEN rateData.value
        ELSE normalizeUnit(rateData.value, rateData.unit))
  ELSE Null

ReserveWh(reservePercent, capacityWh) ==
  IF reservePercent # Null /\ capacityWh # Null
  THEN Mul(capacityWh, Div(reservePercent, Num(100)))
  ELSE Null

\* mutant: charging always projects to 100% of capacity, the cutoff is ignored
TimeEstimate_Always100(status, power, socEnergyWh, capacityWh, reservePercent, cutoffPercent) ==
  IF socEnergyWh # Null /\ capacityWh # Null /\ power # Num(0)
  THEN IF status = "charging"
       THEN [timeToTarget |-> calculateTimeToTarget(socEnergyWh, capacityWh, power),
             targetPercent |-> Num(100)]
       ELSE IF status = "discharging" /\ reservePercent # Null
       THEN LET targetEnergy == Mul(capacityWh, Div(reservePercent, Num(100)))
            IN [timeToTarget |-> calculateTimeToTarget(socEnergyWh, targetEnergy, power),
                targetPercent |-> reservePercent]
       ELSE [timeToTarget |-> Null, targetPercent |-> Null]
  ELSE [timeToTarget |-> Null, targetPercent |-> Null]

\* time estimates: the pair of timeToTarget and targetPercent
TimeEstimate(status, power, socEnergyWh, capacityWh, reservePercent, cutoffPercent) ==
  IF socEnergyWh # Null /\ capacityWh # Null /\ power # Num(0)
  THEN IF status = "charging"
       THEN LET targetPercent == IF cutoffPercent # Null THEN cutoffPercent ELSE Num(100)
                targetEnergy == Mul(capacityWh, Div(targetPercent, Num(100)))
            IN [timeToTarget |-> calculateTimeToTarget(socEnergyWh, targetEnergy, power),
                targetPercent |-> targetPercent]
       ELSE IF status = "discharging" /\ reservePercent # Null
       THEN LET targetEnergy == Mul(capacityWh, Div(reservePercent, Num(100)))
            IN [timeToTarget |-> calculateTimeToTarget(socEnergyWh, targetEnergy, power),
                targetPercent |-> reservePercent]
       ELSE [timeToTarget |-> Null, targetPercent |-> Null]
  ELSE [timeToTarget |-> Null, targetPercent |-> Null]

\* mutant: the percentage is not capped at 100
ChargeRatePercent_Uncapped(power, chargeRateW) ==
  IF chargeRateW # Null /\ Gt(power, Num(0)) /\ Gt(chargeRateW, Num(0))
  THEN Mul(Div(power, chargeRateW), Num(100))
  ELSE Null

ChargeRatePercent(power, chargeRateW) ==
  IF chargeRateW # Null /\ Gt(power, Num(0)) /\ Gt(chargeRateW, Num(0))
  THEN MathMin(Num(100), Mul(Div(power, chargeRateW), Num(100)))
  ELSE Null

\* mutant: the signed power is divided by the rate
DischargeRatePercent_Signed(power, dischargeRateW) ==
  IF dischargeRateW # Null /\ Lt(power, Num(0)) /\ Gt(dischargeRateW, Num(0))
  THEN MathMin(Num(100), Mul(Div(power, dischargeRateW), Num(100)))
  ELSE Null

DischargeRatePercent(power, dischargeRateW) ==
  IF dischargeRateW # Null /\ Lt(power, Num(0)) /\ Gt(dischargeRateW, Num(0))
  THEN MathMin(Num(100), Mul(Div(MathAbs(power), dischargeRateW), Num(100)))
  ELSE Null

PowerPercent(status, power, chargeRateW, dischargeRateW) ==
  IF status = "charging" /\ Truthy(chargeRateW) /\ Gt(chargeRateW, Num(0))
  THEN MathMin(Num(100), Mul(Div(MathAbs(power), chargeRateW), Num(100)))
  ELSE IF status = "discharging" /\ Truthy(dischargeRateW) /\ Gt(dischargeRateW, Num(0))
  THEN MathMin(Num(100), Mul(Div(MathAbs(power), dischargeRateW), Num(100)))
  ELSE Num(0)

\* mutant: only the SOC reading is required
MandatoryUnavailable_SocOnly(socValue, powerValue) ==
  ~socValue.available \/ socValue.value = Null

\* the two required readings: SOC and power
MandatoryUnavailable(socValue, powerValue) ==
  \/ ~socValue.available \/ socValue.value = Null
  \/ ~powerValue.available \/ powerValue.value = Null

\* SOC energy in Wh
SocEnergyWh(socEnergyValue) ==
  IF socEnergyValue.available /\ socEnergyValue.value # Null
  THEN normalizeUnit(socEnergyValue.value, socEnergyValue.unit)
  ELSE Null

\* the object _calculateStats returns
Snapshot(socPercent, power, status, socEnergyWh, capacityWh, reservePercent, cutoffPercent, estimate, chargeRateW, dischargeRateW) ==
  [null |-> FALSE,
   socPercent |-> socPercent,
   socEnergyWh |-> socEnergyWh,
   power |-> power,
   status |-> status,
   capacityWh |-> capacityWh,
   reservePercent |-> reservePercent,
   reserveWh |-> ReserveWh(reservePercent, capacityWh),
   timeToTarget |-> estimate.timeToTarget,
   targetPercent |-> estimate.targetPercent,
   chargeRateW |-> chargeRateW,
   chargeRatePercent |-> ChargeRatePercent(power, chargeRateW),
   dischargeRateW |-> dischargeRateW,
   dischargeRatePercent |-> DischargeRatePercent(power, dischargeRateW),
   cutoffPercent |-> cutoffPercent,
   powerPercent |-> PowerPercent(status, power, chargeRateW, dischargeRateW)]

\* _calculateStats once power and status are known
DeriveStats(socPercent, power, status, socEnergyWh, capacityWh, reservePercent, cutoffPercent, chargeRateW, dischargeRateW) ==
  Snapshot(socPercent, power, status, socEnergyWh, capacityWh, reservePercent,
           cutoffPercent,
           TimeEstimate(status, power, socEnergyWh, capacityWh, reservePercent,
                        cutoffPercent),
           chargeRateW, dischargeRateW)

\* _calculateStats once the required readings are there
ClassifyStats(socPercent, power, socEnergyWh, capacityWh, reservePercent, cutoffPercent, chargeRateW, dischargeRateW) ==
  DeriveStats(socPercent, power, getBatteryStatus(power, Num(0)), socEnergyWh,
              capacityWh, reservePercent, cutoffPercent, chargeRateW, dischargeRateW)

\* _calculateStats on the readings it resolved
StatsOfReadings(config, socValue, powerValue, socEnergyValue, capacityData, reserveData, cutoffData, chargeRateData, dischargeRateData) ==
  IF MandatoryUnavailable(socValue, powerValue) THEN NullStats
  ELSE ClassifyStats(socValue.value, TrickleFilter(config, PowerWatts(powerValue)),
                     SocEnergyWh(socEnergyValue), CapacityWh(capacityData),
                     PercentOf(reserveData), PercentOf(cutoffData),
                     RateW(chargeRateData), RateW(dischargeRateData))

_calculateStats(hass, config) ==
  IF ~hass.set \/ ~config.set THEN NullStats
  ELSE StatsOfReadings(config,
         getEntityValue(hass, config.soc_entity),
         getEntityValue(hass, config.power_entity),
         getEntityValue(hass, config.soc_energy_entity),
         getEntityOrFixedValue(hass, config, "capacity_entity", "capacity", <<"k","W","h">>),
         getEntityOrFixedValue(hass, config, "reserve_entity", "reserve", <<"%">>),
         getEntityOrFixedValue(hass, config, "cutoff_entity", "cutoff", <<"%">>),
         getEntityOrFixedValue(hass, config, "charge_rate_entity", "charge_rate", <<"W">>),
         getEntityOrFixedValue(hass, config, "discharge_rate_entity", "discharge_rate", <<"W">>))

(***************************************************************************)
(* UniversalBatteryCard.render: the view it returns                        *)
(***************************************************************************)
\* !config[k] || !entityExists(hass, config[k])
EntityMissing(hass, config, k) == config[k] = "" \/ ~entityExists(hass, config[k])

\* mutant: the preview is checked before the loading skeleton
render_PreviewFirst(hass, config) ==
  IF ~hass.set \/ ~config.set THEN "nothing"
  ELSE IF EntityMissing(hass, config, "soc_entity")
          \/ EntityMissing(hass, config, "power_entity")
  THEN "preview"
  ELSE IF DOMAIN hass.states = {} THEN "loading"
  ELSE IF _calculateStats(hass, config).null THEN "error"
  ELSE "card"

\* mutant: the snapshot is used without the null check, so the card template
\* reads a field of null and render throws
render_Unchecked(hass, config) ==
  IF ~hass.set \/ ~config.set THEN "nothing"
  ELSE IF DOMAIN hass.states = {} THEN "loading"
  ELSE IF EntityMissing(hass, config, "soc_entity")
          \/ EntityMissing(hass, config, "power_entity")
  THEN "preview"
  ELSE IF _calculateStats(hass, config).null THEN "throw"
  ELSE "card"

\* the template render returns: nothing, the loading skeleton, the preview
\* with its demo values, the error view, or the card
render(hass, config) ==
  IF ~hass.set \/ ~config.set THEN "nothing"
  ELSE IF DOMAIN hass.states = {} THEN "loading"
  ELSE IF EntityMissing(hass, config, "soc_entity")
          \/ EntityMissing(hass, config, "power_entity")
  THEN "preview"
  ELSE IF _calculateStats(hass, config).null THEN "error"
  ELSE "card"

(***************************************************************************)
(* The card: state, configuration inputs and host updates                  *)
(***************************************************************************)
VARIABLES
  hass,    \* the host object: whether it has been assigned, and hass.states
  config,  \* this._config: whether setConfig has run, and the merged options
  stats,   \* what _calculateStats() returns for the current hass and _config
  ticks,   \* number of updates after the first configuration and first hass
  call,    \* the utility function called last, with its arguments
  result,  \* what that call returned
  tap      \* the press handling of the card: its fields, timers and clock

vars == <<hass, config, stats, ticks, call, result, tap>>

NoCall == [fn |-> "none", returned |-> FALSE]

\* the press handling fields while no press has been handled: _holdTimer
\* (0 for null), _holdTriggered and _lastTap, the clock (ms), the pending
\* timers, and the history of the run: the presses with their start and end,
\* whether two presses were ever down together, and the dispatched actions
NoTap ==
  [connected |-> FALSE, now |-> 0, holdTimer |-> 0, holdTriggered |-> FALSE,
   lastTap |-> 0, timers |-> {}, created |-> 0, overlapped |-> FALSE,
   presses |-> <<>>, fired |-> <<>>]

\* number of later updates (reconfigurations, host state pushes) explored
MaxTicks == 2

\* text of the strings used as entity states and units
S_72 == <<"7","2">>
S_1_5 == <<"1",".","5">>
S_m800 == <<"-","8","0","0">>
S_0 == <<"0">>
S_20 == <<"2","0">>
S_25 == <<"2","5">>
S_m25 == <<"-","2","5">>
S_m0_02 == <<"-","0",".","0","2">>
S_1e3 == <<"1","e","3">>
S_Infinity == <<"I","n","f","i","n","i","t","y">>
S_unavailable == <<"u","n","a","v","a","i","l","a","b","l","e">>
S_unknown == <<"u","n","k","n","o","w","n">>
S_abc == <<"a","b","c">>
S_4000 == <<"4","0","0","0">>
S_4 == <<"4">>
S_8000 == <<"8","0","0","0">>
S_9000 == <<"9","0","0","0">>
S_10000 == <<"1","0","0","0","0">>
S_10 == <<"1","0">>
S_40 == <<"4","0">>
S_50 == <<"5","0">>
S_80 == <<"8","0">>
S_30 == <<"3","0">>
S_3 == <<"3">>
S_1000 == <<"1","0","0","0">>
S_3000 == <<"3","0","0","0">>
S_500 == <<"5","0","0">>
U_W == <<"W">>
U_kW == <<"k","W">>
U_KW == <<"K","W">>
U_Wh == <<"W","h">>
U_kWh == <<"k","W","h">>
U_pct == <<"%">>
U_none == <<>>

\* DEFAULT_CONFIG, the options the derivation reads
DEFAULT_CONFIG ==
  [enable_trickle_charge_filter |-> FALSE,
   trickle_charge_threshold |-> NumberValue(Num(DefaultTrickleThreshold)),
   cutoff_entity |-> "",
   cutoff |-> NullValue]

\* { ...DEFAULT_CONFIG, ...c }: an option the user leaves out keeps its default
MergeConfig(c) ==
  [c EXCEPT
     !.set = TRUE,
     !.trickle_charge_threshold =
        IF c.trickle_charge_threshold = Undefined
        THEN DEFAULT_CONFIG.trickle_charge_threshold ELSE @,
     !.cutoff = IF c.cutoff = Undefined THEN DEFAULT_CONFIG.cutoff ELSE @]

\* this._config before setConfig has run
NoConfig ==
  [set |-> FALSE,
   soc_entity |-> "", power_entity |-> "", soc_energy_entity |-> "",
   capacity_entity |-> "", capacity |-> Undefined,
   reserve_entity |-> "", reserve |-> Undefined,
   cutoff_entity |-> "", cutoff |-> Undefined,
   charge_rate_entity |-> "", charge_rate |-> Undefined,
   discharge_rate_entity |-> "", discharge_rate |-> Undefined,
   enable_trickle_charge_filter |-> FALSE,
   trickle_charge_threshold |-> Undefined]

\* a card that reads every quantity from an entity
EntityConfig ==
  [NoConfig EXCEPT
     !.soc_entity = "sensor.soc", !.power_entity = "sensor.power",
     !.soc_energy_entity = "sensor.soc_kwh",
     !.capacity_entity = "sensor.capacity",
     !.reserve_entity = "sensor.reserve",
     !.cutoff_entity = "sensor.cutoff",
     !.charge_rate_entity = "sensor.charge_rate",
     !.discharge_rate_entity = "sensor.discharge_rate"]

\* a card with fixed capacity (kWh), reserve (%) and rates (W)
FixedConfig ==
  [NoConfig EXCEPT
     !.soc_entity = "sensor.soc", !.power_entity = "sensor.power",
     !.soc_energy_entity = "sensor.soc_kwh",
     !.capacity = NumberValue(Num(10)),
     !.reserve = NumberValue(Num(10)),
     !.charge_rate = NumberValue(Num(3000)),
     !.discharge_rate = NumberValue(Num(3000))]

BaseConfigs == {EntityConfig, FixedConfig}

\* the entity each entity option can name
EntityOfKey ==
  [soc_entity |-> "sensor.soc", power_entity |-> "sensor.power",
   soc_energy_entity |-> "sensor.soc_kwh", capacity_entity |-> "sensor.capacity",
   reserve_entity |-> "sensor.reserve", cutoff_entity |-> "sensor.cutoff",
   charge_rate_entity |-> "sensor.charge_rate",
   discharge_rate_entity |-> "sensor.discharge_rate"]

\* the values a reconfiguration can give one option
ConfigChanges ==
  {<<k, "">> : k \in DOMAIN EntityOfKey}
  \cup {<<k, EntityOfKey[k]>> : k \in DOMAIN EntityOfKey}
  \cup {<<"capacity", v>> : v \in {Undefined, NullValue, StringValue(<<>>),
                                   NumberValue(Num(10)), StringValue(S_abc)}}
  \cup {<<"reserve", v>> : v \in {Undefined, NumberValue(Num(10)), NumberValue(Num(0))}}
  \cup {<<"cutoff", v>> : v \in {Undefined, NumberValue(Num(90)), StringValue(S_80)}}
  \cup {<<"charge_rate", v>> : v \in {Undefined, NumberValue(Num(3000)), NumberValue(Num(0))}}
  \cup {<<"discharge_rate", v>> : v \in {Undefined, NumberValue(Num(3000)), StringValue(<<>>)}}
  \cup {<<"enable_trickle_charge_filter", v>> : v \in BOOLEAN}
  \cup {<<"trickle_charge_threshold", v>> :
          v \in {Undefined, NullValue, NumberValue(Num(1000))}}

\* hass.states of a charging battery
BaseStates ==
  [id \in {"sensor.soc", "sensor.power", "sensor.soc_kwh", "sensor.capacity",
           "sensor.reserve", "sensor.cutoff", "sensor.charge_rate",
           "sensor.discharge_rate"} |->
     CASE id = "sensor.soc" -> Entity(S_72, U_pct)
       [] id = "sensor.power" -> Entity(S_1_5, U_kW)
       [] id = "sensor.soc_kwh" -> Entity(S_4000, U_Wh)
       [] id = "sensor.capacity" -> Entity(S_10000, U_Wh)
       [] id = "sensor.reserve" -> Entity(S_10, U_pct)
       [] id = "sensor.cutoff" -> Entity(S_80, U_pct)
       [] id = "sensor.charge_rate" -> Entity(S_3, U_kW)
       [] id = "sensor.discharge_rate" -> Entity(S_3000, U_W)]

\* hass.states before the host has loaded any entity
NoStates == [id \in {} |-> NoEntity]

\* the states the host can report for one entity (NoEntity: the entity is gone)
StateChanges ==
  {<<"sensor.soc", e>> : e \in {Entity(S_72, U_pct), Entity(S_unavailable, U_none), NoEntity}}
  \cup {<<"sensor.power", e>> : e \in
          {Entity(S_1_5, U_kW), Entity(S_m800, U_W), Entity(S_0, U_W),
           Entity(S_20, U_W), Entity(S_25, U_none), Entity(S_m25, U_W),
           Entity(S_m0_02, U_KW), Entity(S_1e3, U_W), Entity(S_Infinity, U_W),
           Entity(S_1_5, U_kWh), Entity(S_unknown, U_W), NoEntity}}
  \cup {<<"sensor.soc_kwh", e>> : e \in
          {Entity(S_4000, U_Wh), Entity(S_4, U_kWh), Entity(S_8000, U_Wh),
           Entity(S_9000, U_Wh), Entity(S_Infinity, U_Wh), NoEntity}}
  \cup {<<"sensor.capacity", e>> : e \in
          {Entity(S_10000, U_Wh), Entity(S_10, U_kWh), Entity(S_Infinity, U_Wh), NoEntity}}
  \cup {<<"sensor.reserve", e>> : e \in
          {Entity(S_10, U_pct), Entity(S_40, U_pct), Entity(S_50, U_pct), NoEntity}}
  \cup {<<"sensor.cutoff", e>> : e \in
          {Entity(S_80, U_pct), Entity(S_30, U_pct), Entity(S_unavailable, U_none), NoEntity}}
  \cup {<<"sensor.charge_rate", e>> : e \in
          {Entity(S_3, U_kW), Entity(S_1000, U_W), Entity(S_0, U_W),
           Entity(S_Infinity, U_W), NoEntity}}
  \cup {<<"sensor.discharge_rate", e>> : e \in
          {Entity(S_3000, U_W), Entity(S_500, U_none), Entity(S_Infinity, U_W), NoEntity}}

\* hass.states with the entry of id replaced by e, or deleted
WithEntity(states, id, e) ==
  IF e.present
  THEN [x \in DOMAIN states \cup {id} |-> IF x = id THEN e ELSE states[x]]
  ELSE [x \in DOMAIN states \ {id} |-> states[x]]

Init ==
  /\ hass = [set |-> FALSE, states |-> <<>>]
  /\ config = NoConfig
  /\ stats = NullStats
  /\ ticks = 0
  /\ call = NoCall
  /\ result = Null
  /\ tap = NoTap

\* setConfig(c), followed by the re-render it requests
setConfig(c) ==
  /\ config' = MergeConfig(c)
  /\ stats' = _calculateStats(hass, config')
  /\ UNCHANGED hass

\* mutant: when the new states give no snapshot the last one is kept
SetHass_KeepLast(states) ==
  /\ hass' = [set |-> TRUE, states |-> states]
  /\ stats' = IF _calculateStats(hass', config).null THEN stats
              ELSE _calculateStats(hass', config)
  /\ UNCHANGED config

\* the host assigns card.hass, followed by the re-render it requests
SetHass(states) ==
  /\ hass' = [set |-> TRUE, states |-> states]
  /\ stats' = _calculateStats(hass', config)
  /\ UNCHANGED config

Configure ==
  \/ /\ ~config.set
     /\ \E c \in BaseConfigs : setConfig(c)
     /\ UNCHANGED ticks
  \/ /\ config.set /\ hass.set /\ ticks < MaxTicks
     /\ \E ch \in ConfigChanges : setConfig([config EXCEPT ![ch[1]] = ch[2]])
     /\ ticks' = ticks + 1

HostUpdate ==
  \/ /\ ~hass.set
     /\ \E states \in {BaseStates, NoStates} : SetHass(states)
     /\ UNCHANGED ticks
  \/ /\ config.set /\ hass.set /\ ticks < MaxTicks
     /\ \E ch \in StateChanges : SetHass(WithEntity(hass.states, ch[1], ch[2]))
     /\ ticks' = ticks + 1

Next ==
  \/ Configure /\ UNCHANGED <<call, result, tap>>
  \/ HostUpdate /\ UNCHANGED <<call, result, tap>>

Spec == Init /\ [][Next]_vars

(***************************************************************************)
(* The utility functions called on their own, over sampled arguments       *)
(***************************************************************************)
\* the quantities _calculateStats resolves with getEntityOrFixedValue
Quantities ==
  {[entityKey |-> "capacity_entity", fixedKey |-> "capacity", defaultUnit |-> U_kWh],
   [entityKey |-> "reserve_entity", fixedKey |-> "reserve", defaultUnit |-> U_pct],
   [entityKey |-> "cutoff_entity", fixedKey |-> "cutoff", defaultUnit |-> U_pct],
   [entityKey |-> "charge_rate_entity", fixedKey |-> "charge_rate", defaultUnit |-> U_W],
   [entityKey |-> "discharge_rate_entity", fixedKey |-> "discharge_rate", defaultUnit |-> U_W]}

FixedInputs ==
  {Undefined, NullValue, StringValue(<<>>), NumberValue(Num(0)), NumberValue(Num(10)),
   NumberValue(Fin(26, 5)), StringValue(S_1_5), StringValue(S_abc)}

EntityInputs ==
  {NoEntity, Entity(S_72, U_pct), Entity(S_1_5, U_kW), Entity(S_m800, U_none),
   Entity(S_0, U_W), Entity(S_unavailable, U_none), Entity(S_unknown, U_W),
   Entity(<<>>, U_W), Entity(S_Infinity, U_Wh), Entity(S_1e3, U_none)}

EnergyInputs == {Num(0), Num(1000), Num(3000), Num(4000), Num(5000), Fin(9001, 2), PosInf}
PowerInputs ==
  {Num(-1500), Num(-800), Fin(-1, 50), Num(0), Fin(1, 50), Num(1000), Num(1500),
   PosInf, NegInf}

\* a host without entities and a card without options: each call starts from these
EmptyHass == [set |-> TRUE, states |-> <<>>]
EmptyConfig == MergeConfig(NoConfig)

\* a call of getEntityOrFixedValue for quantity q, with the option values and
\* the entity it finds
ResolverCalls ==
  {[fn |-> "getEntityOrFixedValue", returned |-> FALSE, entityKey |-> q.entityKey, fixedKey |-> q.fixedKey,
    defaultUnit |-> q.defaultUnit, fixedValue |-> fixed, entityId |-> id, entity |-> e] :
     q \in Quantities, fixed \in FixedInputs, e \in EntityInputs, id \in {"", "sensor.x"}}

ReaderCalls ==
  {[fn |-> "getEntityValue", returned |-> FALSE, entityId |-> id, entity |-> e] :
     e \in EntityInputs, id \in {"", "sensor.x"}}

TimeToTargetCalls ==
  {[fn |-> "calculateTimeToTarget", returned |-> FALSE, currentEnergy |-> c, targetEnergy |-> t, powerWatts |-> p] :
     c \in EnergyInputs, t \in EnergyInputs, p \in PowerInputs}

StatusCalls ==
  {[fn |-> "getBatteryStatus", returned |-> FALSE, power |-> p, threshold |-> Num(0)] : p \in PowerInputs}

\* hass and this._config as a call of the resolver sees them
HassOfCall(c) == [EmptyHass EXCEPT !.states = WithEntity(<<>>, "sensor.x", c.entity)]
ConfigOfCall(c) ==
  [EmptyConfig EXCEPT ![c.entityKey] = c.entityId, ![c.fixedKey] = c.fixedValue]

InitUtil ==
  /\ call \in ResolverCalls \cup ReaderCalls \cup TimeToTargetCalls \cup StatusCalls
  /\ hass = IF call.fn \in {"getEntityOrFixedValue", "getEntityValue"}
            THEN HassOfCall(call) ELSE EmptyHass
  /\ config = IF call.fn = "getEntityOrFixedValue" THEN ConfigOfCall(call) ELSE EmptyConfig
  /\ stats = NullStats
  /\ ticks = 0
  /\ result = Null
  /\ tap = NoTap

CallGetEntityOrFixedValue ==
  /\ call.fn = "getEntityOrFixedValue" /\ ~call.returned
  /\ call' = [call EXCEPT !.returned = TRUE]
  /\ result' = getEntityOrFixedValue(hass, config, call.entityKey, call.fixedKey,
                                     call.defaultUnit)
  /\ UNCHANGED <<hass, config, stats, ticks, tap>>

CallGetEntityValue ==
  /\ call.fn = "getEntityValue" /\ ~call.returned
  /\ call' = [call EXCEPT !.returned = TRUE]
  /\ result' = getEntityValue(hass, call.entityId)
  /\ UNCHANGED <<hass, config, stats, ticks, tap>>

CallCalculateTimeToTarget ==
  /\ call.fn = "calculateTimeToTarget" /\ ~call.returned
  /\ call' = [call EXCEPT !.returned = TRUE]
  /\ result' = calculateTimeToTarget(call.currentEnergy, call.targetEnergy, call.powerWatts)
  /\ UNCHANGED <<hass, config, stats, ticks, tap>>

CallGetBatteryStatus ==
  /\ call.fn = "getBatteryStatus" /\ ~call.returned
  /\ call' = [call EXCEPT !.returned = TRUE]
  /\ result' = getBatteryStatus(call.power, call.threshold)
  /\ UNCHANGED <<hass, config, stats, ticks, tap>>

NextUtil ==
  \/ CallGetEntityOrFixedValue
  \/ CallGetEntityValue
  \/ CallCalculateTimeToTarget
  \/ CallGetBatteryStatus

SpecUtil == InitUtil /\ [][NextUtil]_vars

(***************************************************************************)
(* The conversion, presentation and formatting functions called on their   *)
(* own, over sampled arguments                                             *)
(***************************************************************************)
\* every way of writing kW and kWh in upper and lower case
KiloUnits ==
  {<<k, w>> : k \in {"k", "K"}, w \in {"w", "W"}}
  \cup {<<k, w, h>> : k \in {"k", "K"}, w \in {"w", "W"}, h \in {"h", "H"}}

\* other unit_of_measurement texts, the empty one included
OtherUnits ==
  {<<>>, <<"W">>, <<"w">>, <<"W","h">>, <<"%">>, <<"M","W">>, <<"k">>,
   <<"k","W","h","h">>, <<"k","W"," ">>, <<"k","V","A">>, <<"h","W","k">>}

ValueInputs == {Num(0), Num(5), Fin(3, 2), Num(-800), Fin(-1, 50), PosInf, NaN}

NormalizeCalls ==
  {[fn |-> "normalizeUnit", returned |-> FALSE, value |-> v, unit |-> u] :
     v \in ValueInputs, u \in KiloUnits \cup OtherUnits}

CallNormalizeUnit ==
  /\ call.fn = "normalizeUnit" /\ ~call.returned
  /\ call' = [call EXCEPT !.returned = TRUE]
  /\ result' = normalizeUnit(call.value, call.unit)
  /\ UNCHANGED <<hass, config, stats, ticks, tap>>

\* the threshold and colour options getSocColor reads
ColourConfig(thresholds, colours) ==
  [soc_threshold_very_high |-> thresholds[1], soc_threshold_high |-> thresholds[2],
   soc_threshold_medium |-> thresholds[3], soc_threshold_low |-> thresholds[4],
   soc_colour_very_high |-> colours[1], soc_colour_high |-> colours[2],
   soc_colour_medium |-> colours[3], soc_colour_low |-> colours[4],
   soc_colour_very_low |-> colours[5]]

\* threshold options: left out, descending, null, equal, and two orders in
\* which a lower tier has the higher threshold
ThresholdInputs ==
  {<<Undefined, Undefined, Undefined, Undefined>>,
   <<NumberValue(Num(90)), NumberValue(Num(70)), NumberValue(Num(50)), NumberValue(Num(30))>>,
   <<NumberValue(Num(80)), NullValue, Undefined, NumberValue(Num(0))>>,
   <<NumberValue(Num(60)), NumberValue(Num(60)), NumberValue(Num(60)), NumberValue(Num(60))>>,
   <<Undefined, Undefined, Undefined, NumberValue(Num(50))>>,
   <<NumberValue(Num(20)), NumberValue(Num(40)), NumberValue(Num(60)), NumberValue(Num(80))>>}

\* colour options: left out, CSS variables, arrays, and a mix
ColourInputs ==
  {<<NoColour, NoColour, NoColour, NoColour, NoColour>>,
   <<CssVar(<<"-","-","a">>), CssVar(<<"-","-","b">>), CssVar(<<"-","-","c">>),
     CssVar(<<"-","-","d">>), CssVar(<<"-","-","e">>)>>,
   <<Rgb(0, 0, 255), Rgb(0, 255, 0), Rgb(255, 255, 0), Rgb(255, 0, 0), Rgb(7, 7, 7)>>,
   <<CssVar(<<"-","-","a">>), NoColour, Rgb(255, 255, 0), NoColour, CssVar(<<>>)>>}

\* state-of-charge percentages: around every threshold and icon breakpoint
SocInputs ==
  {Num(p) : p \in {-5, 0, 4, 5, 14, 15, 19, 20, 24, 25, 30, 34, 35, 39, 40, 44, 45,
                   50, 54, 55, 59, 60, 64, 65, 70, 74, 75, 79, 80, 84, 85, 90, 94,
                   95, 100, 120}}
  \cup {Fin(10 * b - 1, 10) : b \in {5, 15, 25, 35, 45, 55, 65, 75, 85, 95}}
  \cup {Fin(399, 10), Fin(145, 2), PosInf}

SocColorCalls ==
  {[fn |-> "getSocColor", returned |-> FALSE, socPercent |-> p,
    config |-> ColourConfig(t, c)] :
     p \in SocInputs, t \in ThresholdInputs, c \in ColourInputs}

BatteryIconCalls ==
  {[fn |-> "getBatteryIcon", returned |-> FALSE, socPercent |-> p] : p \in SocInputs}

\* minutes: stats.timeToTarget, or any other number or null
DurationInputs ==
  {Null, NaN, PosInf, Num(0), Num(1), Num(59), Num(60), Num(125), Num(225),
   Num(5940), Num(5970), Num(5999), Num(6000), Num(6001), Num(100000),
   Num(-1), Fin(-1, 100), Fin(1, 2), Fin(1, 60), Fin(599999, 100), Fin(7261, 60),
   Fin(1, 3), Fin(359999, 60)}

DurationCalls ==
  {[fn |-> "formatDuration", returned |-> FALSE, minutes |-> m] : m \in DurationInputs}

\* watts: |stats.power|, stats.chargeRateW, stats.dischargeRateW, or any
\* other number
WattInputs ==
  {Num(0), Num(500), Num(-500), Num(999), Num(-999), Num(1000), Num(-1000),
   Num(1500), Num(-1500), Num(1040), Num(1050), Num(-1050), Num(1250),
   Num(12345), Num(-12345), Num(999999), Fin(1, 2), Fin(-1, 2), Fin(5, 2),
   Fin(-5, 2), Fin(-2, 5), Fin(9995, 10), Fin(9996, 10), Fin(-9996, 10),
   Fin(2999, 2), Num(3000), PosInf, NegInf, NaN}

DecimalsInputs ==
  {Undefined, NumberValue(Num(0)), NumberValue(Num(1)), NumberValue(Num(2)),
   NumberValue(Num(3))}

PowerCalls ==
  {[fn |-> "formatPower", returned |-> FALSE, watts |-> w, decimals |-> d] :
     w \in WattInputs, d \in DecimalsInputs}

CallGetSocColor ==
  /\ call.fn = "getSocColor" /\ ~call.returned
  /\ call' = [call EXCEPT !.returned = TRUE]
  /\ result' = getSocColor(call.socPercent, call.config)
  /\ UNCHANGED <<hass, config, stats, ticks, tap>>

CallGetBatteryIcon ==
  /\ call.fn = "getBatteryIcon" /\ ~call.returned
  /\ call' = [call EXCEPT !.returned = TRUE]
  /\ result' = getBatteryIcon(call.socPercent)
  /\ UNCHANGED <<hass, config, stats, ticks, tap>>

CallFormatDuration ==
  /\ call.fn = "formatDuration" /\ ~call.returned
  /\ call' = [call EXCEPT !.returned = TRUE]
  /\ result' = formatDuration(call.minutes)
  /\ UNCHANGED <<hass, config, stats, ticks, tap>>

CallFormatPower ==
  /\ call.fn = "formatPower" /\ ~call.returned
  /\ call' = [call EXCEPT !.returned = TRUE]
  /\ result' = formatPower(call.watts, call.decimals)
  /\ UNCHANGED <<hass, config, stats, ticks, tap>>

InitDisplay ==
  /\ call \in NormalizeCalls \cup SocColorCalls \cup BatteryIconCalls
              \cup DurationCalls \cup PowerCalls
  /\ hass = EmptyHass
  /\ config = EmptyConfig
  /\ stats = NullStats
  /\ ticks = 0
  /\ result = Null
  /\ tap = NoTap

NextDisplay ==
  \/ CallNormalizeUnit
  \/ CallGetSocColor
  \/ CallGetBatteryIcon
  \/ CallFormatDuration
  \/ CallFormatPower

SpecDisplay == InitDisplay /\ [][NextDisplay]_vars

(***************************************************************************)
(* What the current configuration and host states say about each quantity  *)
(***************************************************************************)
\* entity option k names an entity that hass.states holds
Found(k) == config[k] # "" /\ config[k] \in DOMAIN hass.states

\* the number the state text of that entity stands for
StateNumber(k) == ParseFloatStr(hass.states[config[k]].state)

\* entity option k gives a reading: configured, found, and its state numeric
Readable(k) == hass.set /\ config.set /\ Found(k) /\ ~IsNaN(StateNumber(k))

\* fixed option f holds a value that is defined, non-null and not the empty string
UsableFixed(f) == config[f].t \in {"number", "string"} /\ config[f] # StringValue(<<>>)

QuantityOf(f) == CHOOSE q \in Quantities : q.fixedKey = f

\* quantity f (capacity, reserve, ...) is available from its fixed value or entity
Available(f) == UsableFixed(f) \/ Readable(QuantityOf(f).entityKey)

\* the power reading in watts, before the trickle filter
ReadingWatts ==
  IF ToLowerCase(hass.states[config.power_entity].unit) = <<"k","w">>
  THEN Mul(StateNumber("power_entity"), Num(1000))
  ELSE StateNumber("power_entity")

\* the configured trickle threshold, 25 W by default
ThresholdWatts ==
  IF config.trickle_charge_threshold.t = "number"
  THEN config.trickle_charge_threshold.v
  ELSE Num(DefaultTrickleThreshold)

(***************************************************************************)
(* Claims                                                                  *)
(***************************************************************************)
\* C1: _calculateStats returns null exactly when the SOC or the power reading
\* is unavailable (entity id not configured, entity not in hass.states, state
\* not numeric); an unavailable optional quantity leaves the snapshot in place
\* and makes null only the fields derived from it.
C1_NullIffMandatoryUnavailable ==
  /\ stats.null <=> ~(Readable("soc_entity") /\ Readable("power_entity"))
  /\ ~stats.null =>
       /\ stats.socEnergyWh = Null <=> ~Readable("soc_energy_entity")
       /\ stats.capacityWh = Null <=> ~Available("capacity")
       /\ stats.reservePercent = Null <=> ~Available("reserve")
       /\ stats.cutoffPercent = Null <=> ~Available("cutoff")
       /\ stats.chargeRateW = Null <=> ~Available("charge_rate")
       /\ stats.dischargeRateW = Null <=> ~Available("discharge_rate")
       /\ stats.reserveWh = Null <=> ~(Available("reserve") /\ Available("capacity"))
       /\ ~Readable("soc_energy_entity") \/ ~Available("capacity") =>
            stats.timeToTarget = Null /\ stats.targetPercent = Null
       /\ ~Available("charge_rate") => stats.chargeRatePercent = Null
       /\ ~Available("discharge_rate") => stats.dischargeRatePercent = Null
       /\ stats.status \in {"charging", "discharging", "idle"}
       /\ stats.powerPercent # Null

\* the power entity is there but its state is not a number: no snapshot
C1_Witness ==
  /\ hass.set /\ config.set /\ Readable("soc_entity")
  /\ Found("power_entity") /\ ~Readable("power_entity")
  /\ stats.null

\* C2: in every snapshot status is charging exactly when power > 0,
\* discharging exactly when power < 0 and idle exactly when power = 0.
C2_StatusMatchesPowerSign ==
  ~stats.null =>
    /\ stats.status = "charging" <=> Gt(stats.power, Num(0))
    /\ stats.status = "discharging" <=> Lt(stats.power, Num(0))
    /\ stats.status = "idle" <=> stats.power = Num(0)

C2_Witness ==
  /\ ~stats.null /\ stats.power = Num(0) /\ stats.status = "idle"
  /\ ReadingWatts = Num(0)

\* C3: with the trickle filter on, a power reading whose magnitude in watts
\* (after the kW conversion) is strictly below the threshold (25 W by default)
\* becomes power 0 and status idle; any other reading, and every reading with
\* the filter off, is stored unchanged.
C3_TrickleFilter ==
  ~stats.null =>
    IF config.enable_trickle_charge_filter /\ Lt(MathAbs(ReadingWatts), ThresholdWatts)
    THEN stats.power = Num(0) /\ stats.status = "idle"
    ELSE stats.power = ReadingWatts

\* a -0.02 KW (20 W) discharge is filtered to idle
C3_Witness ==
  /\ ~stats.null /\ config.enable_trickle_charge_filter
  /\ ReadingWatts = Num(-20) /\ ThresholdWatts = Num(DefaultTrickleThreshold)
  /\ stats.power = Num(0) /\ stats.status = "idle"

\* the fixed value of a resolver call is defined, non-null and not ''
CallHasFixed ==
  call.fixedValue.t \in {"number", "string"} /\ call.fixedValue # StringValue(<<>>)

\* C4: when a usable fixed value and an entity id are both configured,
\* getEntityOrFixedValue returns the fixed value with available = true and
\* isFixed = true whatever the entity is, also when it is missing or not numeric.
C4_FixedValueWins ==
  call.fn = "getEntityOrFixedValue" /\ call.returned /\ CallHasFixed
    /\ call.entityId # "" =>
      /\ result.available /\ result.isFixed
      /\ result.unit = call.defaultUnit
      /\ call.fixedValue.t = "number" => result.value = call.fixedValue.v
      /\ call.fixedValue = StringValue(S_1_5) => result.value = Fin(3, 2)

\* fixed 10 is returned although the entity reads 72
C4_Witness ==
  /\ call.fn = "getEntityOrFixedValue" /\ call.returned
  /\ call.fixedValue = NumberValue(Num(10)) /\ call.entityId # ""
  /\ call.entity = Entity(S_72, U_pct)
  /\ result.value = Num(10) /\ result.isFixed

\* C5: without a usable fixed value the resolver returns the unavailable
\* reading (value null, available false) when no entity id is configured, the
\* entity is missing or its state does not parse as a finite number; otherwise
\* the parsed number with available = true, isFixed = false and the entity's
\* unit, or the default unit when the entity reports none.
C5_UnavailableUnlessFinite ==
  call.fn \in {"getEntityOrFixedValue", "getEntityValue"} /\ call.returned
    /\ (call.fn = "getEntityOrFixedValue" => ~CallHasFixed) =>
      IF call.entityId = "" \/ ~call.entity.present
         \/ ~IsFinite(ParseFloatStr(call.entity.state))
      THEN result.value = Null /\ ~result.available
      ELSE /\ result.value = ParseFloatStr(call.entity.state)
           /\ result.available
           /\ call.fn = "getEntityOrFixedValue" => ~result.isFixed
           /\ result.unit = IF call.entity.unit # <<>> THEN call.entity.unit
                            ELSE IF call.fn = "getEntityOrFixedValue"
                                 THEN call.defaultUnit ELSE <<>>

\* C6: calculateTimeToTarget(current, target, power) is null when power = 0,
\* when target > current and power < 0, and when target < current and
\* power > 0; otherwise it is |target - current| / |power| * 60 minutes.
C6_TimeToTarget ==
  call.fn = "calculateTimeToTarget" /\ call.returned =>
    LET c == call.currentEnergy
        t == call.targetEnergy
        p == call.powerWatts
    IN IF p = Num(0) THEN result = Null
       ELSE IF Gt(t, c) /\ Lt(p, Num(0)) THEN result = Null
       ELSE IF Lt(t, c) /\ Gt(p, Num(0)) THEN result = Null
       ELSE result = Mul(Div(MathAbs(Sub(t, c)), MathAbs(p)), Num(60))

\* calculateTimeToTarget(3000, 5000, 1000) = 120
C6_Witness ==
  /\ call.fn = "calculateTimeToTarget" /\ call.returned
  /\ call.currentEnergy = Num(3000) /\ call.targetEnergy = Num(5000)
  /\ call.powerWatts = Num(1000)
  /\ result = Num(120)

\* the value quantity f resolves to when it is available: the fixed value if
\* usable, else the entity's number
ConfiguredValue(f) ==
  IF UsableFixed(f) THEN ParseFloat(config[f])
  ELSE StateNumber(QuantityOf(f).entityKey)

\* the snapshot attempts a projection: energy and capacity known, power nonzero
ProjectionInputs ==
  ~stats.null /\ stats.socEnergyWh # Null /\ stats.capacityWh # Null
    /\ stats.power # Num(0)

\* energy at pct percent of the snapshot's capacity
EnergyAt(pct) == Mul(stats.capacityWh, Div(pct, Num(100)))

\* C7: the projection target is, while charging, the cutoff percentage of
\* capacity if a cutoff is available and 100% of capacity otherwise; while
\* discharging, the reserve percentage of capacity; while discharging without
\* a reserve no projection is made (timeToTarget and targetPercent null).
C7_TargetSelection ==
  ProjectionInputs =>
    /\ stats.status = "charging" /\ Available("cutoff") =>
         /\ stats.targetPercent = ConfiguredValue("cutoff")
         /\ stats.timeToTarget =
              calculateTimeToTarget(stats.socEnergyWh,
                                    EnergyAt(ConfiguredValue("cutoff")), stats.power)
    /\ stats.status = "charging" /\ ~Available("cutoff") =>
         /\ stats.targetPercent = Num(100)
         /\ stats.timeToTarget =
              calculateTimeToTarget(stats.socEnergyWh, stats.capacityWh, stats.power)
    /\ stats.status = "discharging" /\ Available("reserve") =>
         /\ stats.targetPercent = ConfiguredValue("reserve")
         /\ stats.timeToTarget =
              calculateTimeToTarget(stats.socEnergyWh,
                                    EnergyAt(ConfiguredValue("reserve")), stats.power)
    /\ stats.status = "discharging" /\ ~Available("reserve") =>
         stats.timeToTarget = Null /\ stats.targetPercent = Null

\* charging 1500 W from 4000 Wh toward the 80% cutoff of 10000 Wh: 160 minutes
C7_Witness ==
  /\ ProjectionInputs /\ stats.status = "charging" /\ Available("cutoff")
  /\ stats.targetPercent = Num(80) /\ stats.timeToTarget = Num(160)

\* C8: timeToTarget is present only if the effective power is nonzero, a
\* SOC-energy reading and a capacity are both available, and the sign of the
\* power moves the stored energy toward the selected target (up while
\* charging, down while discharging).
C8_TimeToTargetOnlyTowardTarget ==
  ~stats.null /\ stats.timeToTarget # Null =>
    /\ stats.power # Num(0)
    /\ Readable("soc_energy_entity") /\ Available("capacity")
    /\ stats.targetPercent # Null
    /\ \/ Gt(stats.power, Num(0)) /\ Ge(EnergyAt(stats.targetPercent), stats.socEnergyWh)
       \/ Lt(stats.power, Num(0)) /\ Ge(stats.socEnergyWh, EnergyAt(stats.targetPercent))

\* C9: chargeRatePercent is min(100, |power| / chargeRateW * 100), present
\* only when power > 0 and a charge rate > 0 is available; the same for
\* dischargeRatePercent with power < 0 and the discharge rate; neither
\* exceeds 100.
C9_RatePercent ==
  ~stats.null =>
    /\ stats.chargeRatePercent # Null <=>
         Gt(stats.power, Num(0)) /\ Available("charge_rate")
           /\ Gt(stats.chargeRateW, Num(0))
    /\ stats.chargeRatePercent # Null =>
         /\ stats.chargeRatePercent =
              MathMin(Num(100), Mul(Div(MathAbs(stats.power), stats.chargeRateW), Num(100)))
         /\ ~Gt(stats.chargeRatePercent, Num(100))
    /\ stats.dischargeRatePercent # Null <=>
         Lt(stats.power, Num(0)) /\ Available("discharge_rate")
           /\ Gt(stats.dischargeRateW, Num(0))
    /\ stats.dischargeRatePercent # Null =>
         /\ stats.dischargeRatePercent =
              MathMin(Num(100), Mul(Div(MathAbs(stats.power), stats.dischargeRateW), Num(100)))
         /\ ~Gt(stats.dischargeRatePercent, Num(100))

\* power 1500 W with charge rate 3000 W gives chargeRatePercent 50
C9_Witness ==
  /\ ~stats.null /\ stats.power = Num(1500) /\ stats.chargeRateW = Num(3000)
  /\ stats.chargeRatePercent = Num(50)

\* the rate that applies to the snapshot's status, null when idle
RelevantRate ==
  IF stats.status = "charging" THEN stats.chargeRateW
  ELSE IF stats.status = "discharging" THEN stats.dischargeRateW
  ELSE Null

\* C10: powerPercent is min(100, |power| / rate * 100) for the rate of the
\* current status (charge rate when charging, discharge rate when
\* discharging), 0 when idle or when that rate is unavailable or not
\* positive, and so always lies in [0, 100].
C10_PowerPercent ==
  ~stats.null =>
    /\ stats.powerPercent =
         IF RelevantRate # Null /\ Gt(RelevantRate, Num(0))
         THEN MathMin(Num(100), Mul(Div(MathAbs(stats.power), RelevantRate), Num(100)))
         ELSE Num(0)
    /\ Ge(stats.powerPercent, Num(0)) /\ Ge(Num(100), stats.powerPercent)

(***************************************************************************)
(* C11: unit normalisation                                                 *)
(***************************************************************************)
\* the unit text is kW or kWh in some mix of upper and lower case
IsKiloUnit(u) ==
  /\ Len(u) \in {2, 3}
  /\ u[1] \in {"k", "K"}
  /\ u[2] \in {"w", "W"}
  /\ Len(u) = 3 => u[3] \in {"h", "H"}

\* v * 1000 for a finite v
TimesThousand(v) == Fin(1000 * v.n, v.d)

\* C11: normalizeUnit(v, u) returns v * 1000 for every upper/lower-case
\* variant of kW and kWh, and v unchanged for every other unit text, the
\* empty text included
C11_NormalizeUnit ==
  (call.fn = "normalizeUnit" /\ call.returned) =>
     IF IsKiloUnit(call.unit)
     THEN IF IsFinite(call.value) THEN result = TimesThousand(call.value)
          ELSE result = call.value
     ELSE result = call.value

\* a mixed-case kilo unit has been converted
C11_Witness ==
  /\ call.fn = "normalizeUnit" /\ call.returned
  /\ call.unit = <<"K","w","H">> /\ call.value = Fin(3, 2)
  /\ result = Num(1500)


(***************************************************************************)
(* C12: kilo-unit and base-unit inputs                                     *)
(***************************************************************************)
\* the same quantity reported in the base unit: 1.5 kW becomes 1500 W
\* (entities whose state is no number, whose unit is not kW or kWh, or whose
\* thousandfold is not a whole number are left as they are)
InBaseUnit(e) ==
  IF e.present /\ IsKiloUnit(e.unit) /\ IsFinite(ParseFloatStr(e.state))
     /\ TimesThousand(ParseFloatStr(e.state)).d = 1
  THEN Entity(NumberToString(TimesThousand(ParseFloatStr(e.state))), Tail(e.unit))
  ELSE e

\* the fixed capacity (kWh) is a whole number of Wh
FixedCapacityInKWh ==
  /\ config.capacity.t = "number" /\ IsFinite(config.capacity.v)
  /\ TimesThousand(config.capacity.v).d = 1

\* the host states with every kW and kWh entity reported in W and Wh (the
\* power entity when it reports kW), and with an entity that reports the
\* fixed capacity in Wh
BaseUnitHass ==
  [hass EXCEPT !.states =
     [id \in DOMAIN hass.states \cup
             (IF FixedCapacityInKWh THEN {"sensor.capacity_wh"} ELSE {}) |->
        IF id \in DOMAIN hass.states
        THEN IF id = config.power_entity /\ Len(hass.states[id].unit) # 2
             THEN hass.states[id]
             ELSE InBaseUnit(hass.states[id])
        ELSE Entity(NumberToString(TimesThousand(config.capacity.v)), U_Wh)]]

\* the configuration that reads the capacity from that entity
BaseUnitConfig ==
  IF FixedCapacityInKWh
  THEN [config EXCEPT !.capacity = Undefined, !.capacity_entity = "sensor.capacity_wh"]
  ELSE config

PlaceholderView ==
  IF DOMAIN hass.states = {} THEN "loading"
  ELSE IF \E k \in {"soc_entity", "power_entity"} : ~Found(k) THEN "preview"
  ELSE "error"

ColourText(c) ==
  CASE c.t = "string" -> <<"v","a","r","(">> \o c.s \o <<")">>
       [] c = Rgb(0, 128, 0) ->
            <<"r","g","b","(","0",","," ","1","2","8",","," ","0",")">>
       [] c = Rgb(255, 166, 0) ->
            <<"r","g","b","(","2","5","5",","," ","1","6","6",","," ","0",")">>
       [] c = Rgb(219, 68, 55) ->
            <<"r","g","b","(","2","1","9",","," ","6","8",","," ","5","5",")">>
       [] c = Rgb(139, 0, 0) ->
            <<"r","g","b","(","1","3","9",","," ","0",","," ","0",")">>
       [] c = Rgb(0, 0, 255) ->
            <<"r","g","b","(","0",","," ","0",","," ","2","5","5",")">>
       [] c = Rgb(0, 255, 0) ->
            <<"r","g","b","(","0",","," ","2","5","5",","," ","0",")">>
       [] c = Rgb(255, 255, 0) ->
            <<"r","g","b","(","2","5","5",","," ","2","5","5",","," ","0",")">>
       [] c = Rgb(255, 0, 0) ->
            <<"r","g","b","(","2","5","5",","," ","0",","," ","0",")">>
       [] c = Rgb(7, 7, 7) ->
            <<"r","g","b","(","7",","," ","7",","," ","7",")">>

\* the threshold and colour of tier i of the called configuration (1: very
\* high .. 4: low, 5: the very-low colour), with the defaults for options
\* left out or null
TierThreshold(i) ==
  LET given == <<call.config.soc_threshold_very_high, call.config.soc_threshold_high,
                 call.config.soc_threshold_medium, call.config.soc_threshold_low>>[i]
  IN IF given.t = "number" THEN given.v ELSE Num(<<80, 60, 40, 20>>[i])

TierColour(i) ==
  LET given == <<call.config.soc_colour_very_high, call.config.soc_colour_high,
                 call.config.soc_colour_medium, call.config.soc_colour_low,
                 call.config.soc_colour_very_low>>[i]
  IN IF given.t \in {"string", "array"} THEN given
     ELSE <<Rgb(0, 128, 0), Rgb(0, 128, 0), Rgb(255, 166, 0), Rgb(219, 68, 55),
            Rgb(139, 0, 0)>>[i]

\* the tiers whose threshold the called percentage meets or exceeds
TiersMet == {i \in 1..4 : Ge(call.socPercent, TierThreshold(i))}

\* C15: getSocColor takes the tiers very high, high, medium, low in that
\* order and returns the colour of the first whose threshold the percentage
\* meets or exceeds, the very-low colour when there is none; a triple is
\* written rgb(r, g, b), a symbolic reference var(name)
C15_FirstTierMet ==
  (call.fn = "getSocColor" /\ call.returned) =>
     IF TiersMet = {} THEN result = ColourText(TierColour(5))
     ELSE result = ColourText(TierColour(CHOOSE i \in TiersMet : \A j \in TiersMet : i <= j))

\* 45% with thresholds 90/70/50/30 is in the low tier, whose colour is a triple
C15_Witness ==
  /\ call.fn = "getSocColor" /\ call.returned
  /\ call.socPercent = Num(45)
  /\ call.config.soc_threshold_low = NumberValue(Num(30))
  /\ call.config.soc_threshold_medium = NumberValue(Num(50))
  /\ call.config.soc_colour_low = Rgb(255, 0, 0)
  /\ result = <<"r","g","b","(","2","5","5",","," ","0",","," ","0",")">>

\* C16: for every configuration of the four thresholds, the very-low colour
\* is what getSocColor returns for any percentage below the low threshold
C16_VeryLowBelowLow ==
  (call.fn = "getSocColor" /\ call.returned /\ Lt(call.socPercent, TierThreshold(4))) =>
     result = ColourText(TierColour(5))


(***************************************************************************)
(* C17: the battery icon                                                   *)
(***************************************************************************)
IconBreakpoints == {5, 15, 25, 35, 45, 55, 65, 75, 85, 95}

\* the icon named after the tens digit n: mdi:battery-n0
IconOfTens ==
  [n \in 1..9 |->
     <<"mdi:battery-10", "mdi:battery-20", "mdi:battery-30", "mdi:battery-40",
       "mdi:battery-50", "mdi:battery-60", "mdi:battery-70", "mdi:battery-80",
       "mdi:battery-90">>[n]]

\* the breakpoints the called percentage meets or exceeds
BreakpointsMet == {b \in IconBreakpoints : Ge(call.socPercent, Num(b))}

\* C17: getBatteryIcon maps p to mdi:battery when p >= 95, to mdi:battery-N0
\* for the highest breakpoint 10N-5 (95, 85, .., 5) that p meets or exceeds,
\* and to mdi:battery-outline when p < 5
C17_BatteryIcon ==
  (call.fn = "getBatteryIcon" /\ call.returned) =>
     IF BreakpointsMet = {} THEN result = "mdi:battery-outline"
     ELSE LET top == CHOOSE b \in BreakpointsMet : \A c \in BreakpointsMet : c <= b
          IN IF top = 95 THEN result = "mdi:battery"
             ELSE result = IconOfTens[(top + 5) \div 10]

\* 84.9% is still below the 85 breakpoint
C17_Witness ==
  /\ call.fn = "getBatteryIcon" /\ call.returned
  /\ call.socPercent = Fin(849, 10)
  /\ result = "mdi:battery-80"


(***************************************************************************)
(* C18, C19: durations and powers as text                                  *)
(***************************************************************************)
\* t is a clock text: two digits, a colon, two digits, a colon, two digits
IsClockText(t) ==
  /\ Len(t) = 8
  /\ t[3] = ":" /\ t[6] = ":"
  /\ \A i \in {1, 2, 4, 5, 7, 8} : IsDigit(t[i])

\* the number of seconds a clock text stands for
ClockSeconds(t) ==
  3600 * (10 * DigitVal(t[1]) + DigitVal(t[2]))
  + 60 * (10 * DigitVal(t[4]) + DigitVal(t[5]))
  + (10 * DigitVal(t[7]) + DigitVal(t[8]))

\* C18: formatDuration(minutes) renders HH:MM:SS (125 gives 02:05:00, the
\* fields being the whole hours, minutes below 60 and seconds below 60 of the
\* duration); a negative or absent input renders --:--:--; a duration whose
\* hours no longer fit two digits renders 99:59:59+ (6001 does)
C18_FormatDuration ==
  (call.fn = "formatDuration" /\ call.returned) =>
     /\ IF call.minutes = Null \/ Lt(call.minutes, Num(0))
        THEN result = <<"-","-",":","-","-",":","-","-">>
        ELSE IF Ge(call.minutes, Num(6000))
        THEN result = <<"9","9",":","5","9",":","5","9","+">>
        ELSE /\ IsClockText(result)
             /\ 10 * DigitVal(result[4]) + DigitVal(result[5]) < 60
             /\ 10 * DigitVal(result[7]) + DigitVal(result[8]) < 60
             /\ ClockSeconds(result) = (60 * call.minutes.n) \div call.minutes.d
     /\ call.minutes = Num(125) => result = <<"0","2",":","0","5",":","0","0">>

\* value is the text of a number with exactly k decimals (k > 0), or of an
\* integer (k = 0), with an optional minus sign
IsDecimalText(value, k) ==
  LET body == IF Len(value) > 0 /\ value[1] = "-" THEN Tail(value) ELSE value
      whole == Len(body) - (IF k = 0 THEN 0 ELSE k + 1)
  IN /\ whole >= 1
     /\ \A i \in 1..whole : IsDigit(body[i])
     /\ k > 0 => body[whole + 1] = "."
     /\ \A i \in (whole + 2)..Len(body) : IsDigit(body[i])

\* |a - b| <= 1 / (2 * 10^k) for finite a and b
WithinHalfUnit(a, b, k) == ~Gt(MathAbs(Sub(a, b)), Fin(1, 2 * Pow10(k)))

\* the decimals the call asks for in kW: its argument, 1 when that is 0 or
\* left out
KiloDecimals ==
  IF call.decimals.t = "number" /\ call.decimals.v # Num(0) THEN call.decimals.v.n ELSE 1

\* C19: formatPower(watts, decimals) gives the value in kW with `decimals`
\* decimals (1 when decimals is 0) if |watts| >= 1000 and otherwise in W
\* rounded to an integer; formatPower(1500, 1) is 1.5 kW and
\* formatPower(500, 0) is 500 W; a negative input gives a negative text
C19_FormatPower ==
  (call.fn = "formatPower" /\ call.returned) =>
     /\ IF Ge(MathAbs(call.watts), Num(1000))
        THEN /\ result.unit = <<"k","W">>
             /\ IsDecimalText(result.value, KiloDecimals)
             /\ WithinHalfUnit(ParseFloatStr(result.value),
                               Div(call.watts, Num(1000)), KiloDecimals)
        ELSE /\ result.unit = <<"W">>
             /\ IsDecimalText(result.value, 0)
             /\ WithinHalfUnit(ParseFloatStr(result.value), call.watts, 0)
     /\ (result.value[1] = "-") =>  Lt(call.watts, Num(0))
     /\ (Lt(call.watts, Num(0)) /\ ParseFloatStr(result.value) # Num(0)) =>
           result.value[1] = "-"
     /\ (call.watts = Num(1500) /\ call.decimals = NumberValue(Num(1))) =>
           result = [value |-> <<"1",".","5">>, unit |-> <<"k","W">>]
     /\ (call.watts = Num(500) /\ call.decimals = NumberValue(Num(0))) =>
           result = [value |-> <<"5","0","0">>, unit |-> <<"W">>]


(***************************************************************************)
(* C20: a discharging battery, end to end                                  *)
(***************************************************************************)
\* C20: with power -800 W, reserve 10%, capacity 10000 Wh and SOC energy
\* 4000 Wh the snapshot has status discharging, targetPercent 10 (1000 Wh)
\* and timeToTarget (4000 - 1000) / 800 * 60 = 225 minutes
C20_DischargeToReserve ==
  (/\ ~stats.null
   /\ stats.power = Num(-800)
   /\ stats.reservePercent = Num(10)
   /\ stats.capacityWh = Num(10000)
   /\ stats.socEnergyWh = Num(4000)) =>
     /\ stats.status = "discharging"
     /\ stats.targetPercent = Num(10)
     /\ stats.reserveWh = Num(1000)
     /\ stats.timeToTarget = Num(225)

\* the host reports -800 W, 4000 Wh of 10000 Wh and a reserve of 10%
C20_Witness ==
  /\ hass.set /\ config.set /\ ~stats.null
  /\ Found("power_entity") /\ hass.states[config.power_entity] = Entity(S_m800, U_W)
  /\ Found("soc_energy_entity")
  /\ hass.states[config.soc_energy_entity] = Entity(S_4000, U_Wh)
  /\ stats.capacityWh = Num(10000)
  /\ stats.reservePercent = Num(10)
  /\ stats.power = Num(-800)
  /\ stats.timeToTarget = Num(225)

(***************************************************************************)
(* Tap, hold and double tap: the press handling of the card in             *)
(* src/unnamed/part_000.  Time is in milliseconds.  A timer runs its       *)
(* callback at the instant it is due, before any further input is handled. *)
(***************************************************************************)

\* the delay of the hold timer
HoldDelay == 500

\* the window of a double tap, and the delay of the single tap timer
TapDelay == 300

\* the last instant of the clock, which starts at 1000 with the first press
MaxTime == 1800

\* the number of presses of one run
MaxPresses == 2

\* the input devices whose events reach the handlers
Pointers == {"touch", "mouse"}

\* an action configuration: absent, or an object with its action name and
\* whether the path, url or service that action needs is given
NoAction == [set |-> FALSE, action |-> "none", target |-> FALSE]

ActionOf(a) == [set |-> TRUE, action |-> a, target |-> a \in {"navigate", "url", "call-service"}]

\* the event handleAction dispatches for an action configuration
handleAction(action) ==
  IF ~action.set \/ action.action = "none" THEN "nothing"
  ELSE CASE action.action = "more-info" -> "hass-more-info"
         [] action.action = "navigate" /\ action.target -> "location-changed"
         [] action.action = "url" /\ action.target -> "window-open"
         [] action.action = "call-service" /\ action.target -> "call-service"
         [] action.action = "fire-dom-event" -> "ll-custom"
         [] OTHER -> "nothing"

TapConfig(h, t, d) == [set |-> TRUE, hold_action |-> h, tap_action |-> t, double_tap_action |-> d]

\* every action configured, only a tap action, and every action 'none'
TapConfigs ==
  { TapConfig(ActionOf("more-info"), ActionOf("more-info"), ActionOf("navigate")),
    TapConfig(NoAction, ActionOf("more-info"), NoAction),
    TapConfig(ActionOf("none"), ActionOf("none"), ActionOf("none")) }

\* the presses that are down, as indexes of tap.presses
Down(t) == {i \in 1..Len(t.presses) : t.presses[i].how = "down"}

DownOf(t, p) == {i \in Down(t) : t.presses[i].src = p}

\* the press log with the presses of `which' closed at the present instant
Closed(t, which, how) ==
  [i \in 1..Len(t.presses) |->
     IF i \in which THEN [t.presses[i] EXCEPT !.stop = t.now, !.how = how]
     ELSE t.presses[i]]

\* setTimeout: a new timer, its id, and the press that armed it
SetTimeout(t, kind, delay, press) ==
  [id |-> t.created + 1, kind |-> kind, due |-> t.now + delay, stamp |-> t.now, press |-> press]

\* clearTimeout(this._holdTimer)
ClearHoldTimer(t) == {x \in t.timers : x.id # t.holdTimer}

\* the log of dispatched actions, extended when handleAction dispatches
Dispatch(t, kind, action, press) ==
  IF handleAction(action) = "nothing" THEN t.fired
  ELSE Append(t.fired, [kind |-> kind, event |-> handleAction(action), at |-> t.now,
                        press |-> press, connected |-> t.connected])

\* _handleTapStart: forget an earlier hold and arm a hold timer
_handleTapStart(t, cfg, p) ==
  [t EXCEPT !.holdTriggered = FALSE,
            !.timers = @ \cup {SetTimeout(t, "hold", HoldDelay, Len(t.presses) + 1)},
            !.holdTimer = t.created + 1,
            !.created = @ + 1,
            !.overlapped = @ \/ Down(t) # {},
            !.presses = Append(@, [src |-> p, start |-> t.now, stop |-> t.now, how |-> "down"])]

\* the callback of the hold timer; this._holdTimer keeps the id
HoldCallback(t, cfg, x) ==
  [t EXCEPT !.timers = @ \ {x},
            !.holdTriggered = TRUE,
            !.fired = IF cfg.hold_action.set THEN Dispatch(t, "hold", cfg.hold_action, x.press) ELSE @]

\* the else branch of _handleTapEnd: remember the release and arm the tap timer
ArmTap(t, i) ==
  [t EXCEPT !.lastTap = t.now,
            !.timers = @ \cup {SetTimeout(t, "tap", TapDelay, i)},
            !.created = @ + 1]

\* _handleTapEnd for the release of press i
_handleTapEnd(t, cfg, i) ==
  LET c == [t EXCEPT !.timers = ClearHoldTimer(t), !.holdTimer = 0,
                     !.presses = Closed(t, {i}, "end")]
  IN  IF t.holdTriggered THEN [c EXCEPT !.holdTriggered = FALSE]
      ELSE IF c.now - c.lastTap < TapDelay /\ cfg.double_tap_action.set
           THEN [c EXCEPT !.fired = Dispatch(c, "double_tap", cfg.double_tap_action, i),
                          !.lastTap = 0]
           ELSE ArmTap(c, i)

\* the callback of the tap timer armed by the release at x.stamp
TapCallback(t, cfg, x) ==
  [t EXCEPT !.timers = @ \ {x},
            !.fired = IF t.lastTap = x.stamp /\ cfg.tap_action.set
                      THEN Dispatch(t, "tap", cfg.tap_action, x.press) ELSE @]

\* _handleTapCancel for the cancelled press i
_handleTapCancel(t, i) ==
  [t EXCEPT !.timers = ClearHoldTimer(t), !.holdTimer = 0,
            !.presses = Closed(t, {i}, "cancel")]

connectedCallback(t) == [t EXCEPT !.connected = TRUE]

\* disconnectedCallback: the listeners go, and the hold timer it tracks
disconnectedCallback(t) ==
  [t EXCEPT !.connected = FALSE,
            !.timers = ClearHoldTimer(t), !.holdTimer = 0,
            !.presses = Closed(t, Down(t), "detached")]

NoTimerDue == \A x \in tap.timers : x.due > tap.now

InitTap ==
  /\ hass = EmptyHass
  /\ config \in TapConfigs
  /\ stats = NullStats
  /\ ticks = 0
  /\ call = NoCall
  /\ result = Null
  /\ tap = [NoTap EXCEPT !.now = 1000]

TapUnchanged == UNCHANGED <<hass, config, stats, ticks, call, result>>

Connect ==
  /\ NoTimerDue /\ ~tap.connected
  /\ tap' = connectedCallback(tap)
  /\ TapUnchanged

Disconnect ==
  /\ NoTimerDue /\ tap.connected
  /\ tap' = disconnectedCallback(tap)
  /\ TapUnchanged

TapStart ==
  /\ NoTimerDue /\ tap.connected /\ Len(tap.presses) < MaxPresses
  /\ \E p \in Pointers :
       /\ DownOf(tap, p) = {}
       /\ tap' = _handleTapStart(tap, config, p)
  /\ TapUnchanged

TapEnd ==
  /\ NoTimerDue /\ tap.connected
  /\ \E i \in Down(tap) : tap' = _handleTapEnd(tap, config, i)
  /\ TapUnchanged

TapCancel ==
  /\ NoTimerDue /\ tap.connected
  /\ \E i \in Down(tap) : tap' = _handleTapCancel(tap, i)
  /\ TapUnchanged

HoldTimeout ==
  /\ \E x \in tap.timers :
       /\ x.kind = "hold" /\ x.due <= tap.now
       /\ tap' = HoldCallback(tap, config, x)
  /\ TapUnchanged

TapTimeout ==
  /\ \E x \in tap.timers :
       /\ x.kind = "tap" /\ x.due <= tap.now
       /\ tap' = TapCallback(tap, config, x)
  /\ TapUnchanged

Tick ==
  /\ NoTimerDue /\ tap.now + 100 <= MaxTime /\ tap.presses # <<>>
  /\ tap' = [tap EXCEPT !.now = @ + 100]
  /\ TapUnchanged

NextTap ==
  \/ Connect
  \/ Disconnect
  \/ TapStart
  \/ TapEnd
  \/ TapCancel
  \/ HoldTimeout
  \/ TapTimeout
  \/ Tick

SpecTap == InitTap /\ [][NextTap]_vars

(***************************************************************************)
(* Claims about presses, releases and the actions they fire                *)
(***************************************************************************)

Presses == 1..Len(tap.presses)

\* the dispatches of one kind that the press i, or its release, caused
FiredFor(kind, i) ==
  {k \in 1..Len(tap.fired) : tap.fired[k].kind = kind /\ tap.fired[k].press = i}

\* how many dispatches a configured action yields when it fires once
Expected(action) == IF action.set /\ action.action # "none" THEN 1 ELSE 0

\* the press i stayed down for the whole hold delay
HeldPress(i) ==
  IF tap.presses[i].how = "down"
  THEN tap.now > tap.presses[i].start + HoldDelay
  ELSE tap.presses[i].stop >= tap.presses[i].start + HoldDelay

\* the press i was released before the hold delay
ShortRelease(i) ==
  /\ tap.presses[i].how = "end"
  /\ tap.presses[i].stop < tap.presses[i].start + HoldDelay

ReleasedAt(i) == tap.presses[i].stop

ShortReleases == {i \in Presses : ShortRelease(i)}

\* the releases i and j are less than the tap delay apart
Near(i, j) ==
  /\ ReleasedAt(j) - ReleasedAt(i) < TapDelay
  /\ ReleasedAt(i) - ReleasedAt(j) < TapDelay

\* the tap window of the release i is over
WindowOver(i) ==
  \/ tap.now > ReleasedAt(i) + TapDelay
  \/ /\ tap.now = ReleasedAt(i) + TapDelay
     /\ \A x \in tap.timers : ~(x.kind = "tap" /\ x.press = i)

\* C21: a press held for 500 ms fires the configured hold_action exactly
\* once, and its release fires neither tap_action nor double_tap_action.
C21_HoldAction ==
  \A i \in Presses :
    HeldPress(i) =>
      /\ Cardinality(FiredFor("hold", i)) = Expected(config.hold_action)
      /\ tap.presses[i].how = "end" =>
           FiredFor("tap", i) = {} /\ FiredFor("double_tap", i) = {}

\* C22: with double_tap_action configured, two releases of short presses
\* less than 300 ms apart, with no third one near them, fire double_tap_action
\* exactly once and tap_action for neither.
C22_DoubleTapAction ==
  config.double_tap_action.set =>
    \A i, j \in ShortReleases :
      ( /\ i # j /\ Near(i, j)
        /\ \A k \in ShortReleases \ {i, j} : ~Near(i, k) /\ ~Near(j, k) )
      =>
      /\ Cardinality(FiredFor("double_tap", i) \cup FiredFor("double_tap", j))
           = Expected(config.double_tap_action)
      /\ FiredFor("tap", i) = {} /\ FiredFor("tap", j) = {}

\* C23: a press released before 500 ms, with no other release in the 300 ms
\* that follow and not itself the second release of a double tap, fires the
\* configured tap_action exactly once, 300 ms after the release, and fires
\* neither hold_action nor double_tap_action; 'none' and an absent action
\* fire nothing.
C23_TapAction ==
  \A i \in ShortReleases :
    ( /\ WindowOver(i)
      /\ \A k \in ShortReleases \ {i} :
           /\ ~(ReleasedAt(k) >= ReleasedAt(i) /\ Near(i, k))
           /\ ~(config.double_tap_action.set /\ Near(i, k)) )
    =>
    /\ Cardinality(FiredFor("tap", i)) = Expected(config.tap_action)
    /\ \A k \in FiredFor("tap", i) : tap.fired[k].at = ReleasedAt(i) + TapDelay
    /\ FiredFor("hold", i) = {} /\ FiredFor("double_tap", i) = {}

\* C26: once every started press has been released or cancelled before its
\* 500 ms elapsed, whatever the interleaving of the starts, releases and
\* cancels of the two pointers, no hold_action has fired.
C26_NoHoldAfterShortPresses ==
  (\A i \in Presses :
     /\ tap.presses[i].how \in {"end", "cancel"}
     /\ tap.presses[i].stop < tap.presses[i].start + HoldDelay)
  => \A k \in 1..Len(tap.fired) : tap.fired[k].kind # "hold"

\* C27: no tap_action, hold_action or double_tap_action is dispatched while
\* the card is disconnected.
C27_NoDispatchWhileDisconnected ==
  \A k \in 1..Len(tap.fired) : tap.fired[k].connected


PowerReading == getEntityValue(hass, config.power_entity)

BothEntitiesExist == Found("soc_entity") /\ Found("power_entity")

\* C25: render shows nothing when hass or the configuration is unset; else
\* the loading skeleton when hass.states is empty; else the preview when the
\* SOC or power entity is unconfigured or not in hass.states; else the error
\* view when the snapshot is null; else the card, so the card is rendered
\* only from a non-null snapshot
C25_ViewOrder ==
  /\ (~hass.set \/ ~config.set) => render(hass, config) = "nothing"
  /\ (hass.set /\ config.set) =>
       /\ DOMAIN hass.states = {} => render(hass, config) = "loading"
       /\ (DOMAIN hass.states # {} /\ ~BothEntitiesExist) =>
            render(hass, config) = "preview"
       /\ (BothEntitiesExist /\ stats.null) => render(hass, config) = "error"
       /\ (BothEntitiesExist /\ ~stats.null) => render(hass, config) = "card"
  /\ render(hass, config) = "card" => ~stats.null

\* hass.states is empty while the entities are configured: the loading
\* skeleton, not the preview
C25_Witness ==
  /\ hass.set /\ config.set
  /\ DOMAIN hass.states = {}
  /\ config.soc_entity # "" /\ config.power_entity # ""
  /\ render(hass, config) = "loading"


(***************************************************************************)
(* C28: the shape of a projection                                          *)
(***************************************************************************)
\* C28: a present timeToTarget is >= 0 and comes with a status that is not
\* idle, a target percentage, a SOC energy and a capacity; when the SOC
\* energy equals the energy at the target and the power is not zero,
\* timeToTarget is 0
C28_ProjectionShape ==
  ~stats.null =>
    /\ stats.timeToTarget # Null =>
         /\ Ge(stats.timeToTarget, Num(0))
         /\ stats.status # "idle"
         /\ stats.targetPercent # Null
         /\ stats.socEnergyWh # Null
         /\ stats.capacityWh # Null
    /\ ( /\ ProjectionInputs /\ stats.targetPercent # Null
         /\ stats.socEnergyWh = EnergyAt(stats.targetPercent) ) =>
         stats.timeToTarget = Num(0)


(***************************************************************************)
(* C29: the rate percentages and powerPercent                              *)
(***************************************************************************)
\* C29: chargeRatePercent and dischargeRatePercent are never both present;
\* when the status is idle both are absent and powerPercent is 0; a present
\* chargeRatePercent or dischargeRatePercent is the value of powerPercent
\* (the same value, be it a percentage or NaN)
C29_RatePercentsAgree ==
  ~stats.null =>
    /\ stats.chargeRatePercent = Null \/ stats.dischargeRatePercent = Null
    /\ stats.status = "idle" =>
         /\ stats.chargeRatePercent = Null
         /\ stats.dischargeRatePercent = Null
         /\ stats.powerPercent = Num(0)
    /\ stats.chargeRatePercent # Null => stats.powerPercent = stats.chargeRatePercent
    /\ stats.dischargeRatePercent # Null =>
         stats.powerPercent = stats.dischargeRatePercent

\* discharging 800 W against a discharge rate of 3000 W: both are 26.67
C29_Witness ==
  /\ ~stats.null /\ stats.status = "discharging"
  /\ stats.power = Num(-800) /\ stats.dischargeRateW = Num(3000)
  /\ stats.chargeRatePercent = Null
  /\ stats.dischargeRatePercent = Fin(80, 3)
  /\ stats.powerPercent = Fin(80, 3)


(***************************************************************************)
(* C30: available readings are finite                                      *)
(***************************************************************************)
\* C30: a reading that getEntityOrFixedValue or getEntityValue returns with
\* available = true carries a finite number, from a fixed value as well as
\* from an entity state
C30_AvailableIsFinite ==
  (call.fn \in {"getEntityOrFixedValue", "getEntityValue"} /\ call.returned
     /\ result.available) =>
       IsFinite(result.value)

====
